---------------------------- MODULE Spec2Model ----------------------------
(***************************************************************************)
(* HCAL channel topology index (HBHEChannelMap) and jet-based channel      *)
(* selection (FFTJetChannelSelector) of NoiseTreeOps.                      *)
(*                                                                         *)
(* The HBHEChannelMap part follows HBHEChannelMap.cc line by line, at the  *)
(* full size of the detector.  The initial states are the states after     *)
(* the constructor has run; the local "unsigned l" of the constructor and  *)
(* the outcome of its assertions are kept as variables.                    *)
(***************************************************************************)
EXTENDS Integers, Sequences, FiniteSets, TLC

(***************************************************************************)
(* Program constants                                                       *)
(***************************************************************************)

\* HBHEChannelMap::ChannelCount (HBHEChannelMap.h); the same number is the
\* upper edge of the hit-count axis of the "Nhits_E" histogram.
ChannelCount == 5184

\* HcalHPDRBXMap::NUM_HPDS and NUM_RBXS (HcalHPDRBXMap.h)
NUM_HPDS == 288
NUM_RBXS == 72

\* Number of azimuthal bins; the literal 72 of the constructor loops and of
\* the wrap-around in calculateNeighborList.
NPhi == 72

\* Largest |ieta| of the detector (getSubdetector asserts abseta <= 29U)
MaxAbsEta == 29

\* Largest depth (getSubdetector asserts depth < 4U)
MaxDepth == 3

(***************************************************************************)
(* Bounds of the model                                                     *)
(***************************************************************************)

\* Indices up to ChannelCount + IndexSlack are passed to the accessors.
IndexSlack == 2

\* The hardware map HcalHPDRBXMap::indexHPD is an external table; the model
\* draws it from a family of strip maps of azimuthal width 1..MaxStripWidth.
MaxStripWidth == 2

(***************************************************************************)
(* HBHEChannelId: the value type holding a (depth, ieta, iphi) triple, the *)
(* key of the std::map inverse_.                                           *)
(***************************************************************************)
HBHEChannelId(depth, ieta, iphi) ==
    [depth |-> depth, ieta |-> ieta, iphi |-> iphi]

\* a default-constructed id: the content of lookup_[i] before it is written
NoChannelId == HBHEChannelId(0, 0, 0)

\* the value of "it == inverse_.end()"
NotFound == -1

Abs(x) == IF x < 0 THEN -x ELSE x

\* Fault variant of CtorLoops: the sixth loop runs over ieta -18..-17
\* instead of -16..-15, so that the ring (depth 2, ieta -18) is written
\* twice while the number of writes stays the same.
CtorLoopsRepeatedRing ==
    << [depth |-> 1, lo |-> -29, hi |-> -21, half |-> TRUE,  skipZero |-> FALSE],
       [depth |-> 1, lo |-> -20, hi |->  20, half |-> FALSE, skipZero |-> TRUE],
       [depth |-> 1, lo |->  21, hi |->  29, half |-> TRUE,  skipZero |-> FALSE],
       [depth |-> 2, lo |-> -29, hi |-> -21, half |-> TRUE,  skipZero |-> FALSE],
       [depth |-> 2, lo |-> -20, hi |-> -18, half |-> FALSE, skipZero |-> FALSE],
       [depth |-> 2, lo |-> -18, hi |-> -17, half |-> FALSE, skipZero |-> FALSE],
       [depth |-> 2, lo |->  15, hi |->  16, half |-> FALSE, skipZero |-> FALSE],
       [depth |-> 2, lo |->  18, hi |->  20, half |-> FALSE, skipZero |-> FALSE],
       [depth |-> 2, lo |->  21, hi |->  29, half |-> TRUE,  skipZero |-> FALSE],
       [depth |-> 3, lo |-> -28, hi |-> -27, half |-> TRUE,  skipZero |-> FALSE],
       [depth |-> 3, lo |-> -16, hi |-> -16, half |-> FALSE, skipZero |-> FALSE],
       [depth |-> 3, lo |->  16, hi |->  16, half |-> FALSE, skipZero |-> FALSE],
       [depth |-> 3, lo |->  27, hi |->  28, half |-> TRUE,  skipZero |-> FALSE] >>

(***************************************************************************)
(* The thirteen loops of the constructor, in program order.  half = TRUE   *)
(* is "for (iphi=1; iphi<72; iphi+=2)", half = FALSE is                    *)
(* "for (iphi=1; iphi<=72; ++iphi)"; skipZero is the "if (ieta)" of the    *)
(* second loop.                                                            *)
(***************************************************************************)
CtorLoops ==
    << [depth |-> 1, lo |-> -29, hi |-> -21, half |-> TRUE,  skipZero |-> FALSE],
       [depth |-> 1, lo |-> -20, hi |->  20, half |-> FALSE, skipZero |-> TRUE],
       [depth |-> 1, lo |->  21, hi |->  29, half |-> TRUE,  skipZero |-> FALSE],
       [depth |-> 2, lo |-> -29, hi |-> -21, half |-> TRUE,  skipZero |-> FALSE],
       [depth |-> 2, lo |-> -20, hi |-> -18, half |-> FALSE, skipZero |-> FALSE],
       [depth |-> 2, lo |-> -16, hi |-> -15, half |-> FALSE, skipZero |-> FALSE],
       [depth |-> 2, lo |->  15, hi |->  16, half |-> FALSE, skipZero |-> FALSE],
       [depth |-> 2, lo |->  18, hi |->  20, half |-> FALSE, skipZero |-> FALSE],
       [depth |-> 2, lo |->  21, hi |->  29, half |-> TRUE,  skipZero |-> FALSE],
       [depth |-> 3, lo |-> -28, hi |-> -27, half |-> TRUE,  skipZero |-> FALSE],
       [depth |-> 3, lo |-> -16, hi |-> -16, half |-> FALSE, skipZero |-> FALSE],
       [depth |-> 3, lo |->  16, hi |->  16, half |-> FALSE, skipZero |-> FALSE],
       [depth |-> 3, lo |->  27, hi |->  28, half |-> TRUE,  skipZero |-> FALSE] >>

\* Fault variant of PhiSeq: the full-granularity loop also stops at
\* "iphi < 72" and leaves out the last azimuthal bin.
PhiSeqShortRing(half) ==
    IF half
    THEN [k \in 1..(NPhi \div 2) |-> 2 * k - 1]
    ELSE [k \in 1..(NPhi - 1) |-> k]

\* the iphi values one inner loop visits, as the sequence it visits them in
PhiSeq(half) ==
    IF half
    THEN [k \in 1..(NPhi \div 2) |-> 2 * k - 1]
    ELSE [k \in 1..NPhi |-> k]

\* One pass of an outer "for (int ieta ...)" loop: the ids the inner loop
\* writes, in the order it writes them.
RingWrites(loop, ieta) ==
    IF loop.skipZero /\ ieta = 0
    THEN << >>
    ELSE LET phis == PhiSeq(loop.half)
         IN [k \in 1..Len(phis) |-> HBHEChannelId(loop.depth, ieta, phis[k])]

\* the ids one loop writes for ieta = lo, ..., hi
RECURSIVE LoopWrites(_, _, _)
LoopWrites(loop, lo, hi) ==
    IF lo > hi THEN << >>
    ELSE IF lo = hi THEN RingWrites(loop, lo)
    ELSE LET mid == (lo + hi) \div 2
         IN LoopWrites(loop, lo, mid) \o LoopWrites(loop, mid + 1, hi)

\* the ids the loops number from .. to write
RECURSIVE LoopsWrites(_, _)
LoopsWrites(from, to) ==
    IF from > to THEN << >>
    ELSE LoopWrites(CtorLoops[from], CtorLoops[from].lo, CtorLoops[from].hi)
            \o LoopsWrites(from + 1, to)

\* every "lookup_[l++] = HBHEChannelId(depth, ieta, iphi)" the constructor
\* executes, in program order: CtorWrites[k] is written at position k - 1
CtorWrites == LoopsWrites(1, Len(CtorLoops))

\* the set of triples the constructor writes
EnumeratedTriples == { CtorWrites[k] : k \in 1..Len(CtorWrites) }

VARIABLES
    pc,                   \* "ready", or "abort" after a failed assertion
    l,                    \* constructor: the local "unsigned l" at the assert
    overflow,             \* a write lookup_[l++] went past the array
    hpdMap,               \* the external hardware map in use (strip width)
    lookup_,
    inverse_,
    hpd_lookup_,
    chan_in_hpd_lookup_,
    hpd_channel_lookup_,
    rbx_lookup_,
    chan_in_rbx_lookup_,
    rbx_channel_lookup_,
    neighborInfoFilled_,
    hpdNeighborsFilled_,
    channel_neighbors_,
    hpd_neighbors_,
    ret,                  \* the outcome of the last call
    selPc,                \* selector: "idle", or "selected" after select
    event,                \* selector: the jets and channels of the event
    closestJet,           \* selector: per channel, its jet or NoJet
    jetChannels_,         \* selector: per jet, its sorted channel list
    budgetDiscarded,      \* selector: channels the energy budget discards
    mask,                 \* selector output: per channel, 1 if selected
    associatedJetPt,      \* selector output: per channel, the jet Pt or 0
    threads,              \* per thread, its position in a call on the map
    races,                \* the kinds of conflicting accesses that occurred
    anaPc,                \* analysis program: how far the job has come
    error,                \* analysis program: the exception that ended it
    options,              \* SelectGoodChannelsOptions
    channelSelector_,
    eMinTS_,
    eMaxTS_,
    entry,                \* the tree entry loaded: PulseCount and the pulses
    eventCounter_,
    channelCounter_,
    channelNumber_,
    channelCharge_,
    helperRet,            \* the outcome of the last call on the helper
    ChannelQNtuple,       \* the rows filled into the channel ntuple
    txtPc,                \* fillTuplesFromText: position of the call
    textFile,             \* the lines of the text the stream is opened on
    asciiStream,          \* the lines not yet read from the stream
    hasCommasBetweenValues,
    tofill,               \* the tuples pushed back so far
    status,               \* the local "bool status"
    geoPc,                \* HBHEChannelGeometry: position in the constructor
    hbFile,               \* the content of the file named hbFile
    heFile,               \* the content of the file named heFile
    directions_,
    geoError,             \* the exception the constructor ended with
    f1_,                  \* functors: the first operand functor
    f2_,                  \* functors: the second operand functor
    fnRet                 \* functors: the outcome of the last call

mapVars == << lookup_, inverse_, hpd_lookup_, chan_in_hpd_lookup_,
              hpd_channel_lookup_, rbx_lookup_, chan_in_rbx_lookup_,
              rbx_channel_lookup_ >>
cacheVars == << neighborInfoFilled_, hpdNeighborsFilled_,
                channel_neighbors_, hpd_neighbors_ >>
ctorVars == << pc, l, overflow, hpdMap >>
selVars == << selPc, event, closestJet, jetChannels_, budgetDiscarded,
              mask, associatedJetPt >>
threadVars == << threads, races >>
anaVars == << anaPc, error, options, channelSelector_, eMinTS_, eMaxTS_,
              entry, eventCounter_, channelCounter_, channelNumber_,
              channelCharge_, helperRet, ChannelQNtuple >>
txtVars == << txtPc, textFile, asciiStream, hasCommasBetweenValues, tofill,
              status >>
geoVars == << geoPc, hbFile, heFile, directions_, geoError >>
fnVars == << f1_, f2_, fnRet >>
vars == << ctorVars, mapVars, cacheVars, ret, selVars, threadVars, anaVars,
           txtVars, geoVars, fnVars >>

NoCall == [op |-> "none"]

\* the event read by the selector before any event is read
NoEvent == [jets |-> << >>, channels |-> << >>]

\* the selector with no event selected
SelectorIdle ==
    /\ selPc = "idle"
    /\ event = NoEvent
    /\ closestJet = << >>
    /\ jetChannels_ = << >>
    /\ budgetDiscarded = {}
    /\ mask = << >>
    /\ associatedJetPt = << >>

\* bound: the threads that call the map
NThreads == 2

Threads == 1..NThreads

\* a thread that is in no call
NoThreadCall == [pc |-> "idle"]

\* no thread is in a call of the map
ThreadsIdle ==
    /\ threads = [t \in Threads |-> NoThreadCall]
    /\ races = {}

\* no entry of the tree is loaded
NoEntry ==
    [PulseCount |-> 0, pulses |-> << >>, jets |-> << >>, distance |-> << >>]

\* no exception has ended the job: the type of the exception and the
\* function that threw it
NoError == << "none", "none" >>

\* no call has been made on the helper
NoHelperCall == [op |-> "none"]

\* the analysis program is not part of the system
AnalysisAbsent ==
    /\ anaPc = "absent"
    /\ error = NoError
    /\ options = << >>
    /\ channelSelector_ = "null"
    /\ eMinTS_ = 0
    /\ eMaxTS_ = 0
    /\ entry = NoEntry
    /\ eventCounter_ = 0
    /\ channelCounter_ = 0
    /\ channelNumber_ = << >>
    /\ channelCharge_ = << >>
    /\ helperRet = NoHelperCall
    /\ ChannelQNtuple = << >>

\* no text is being parsed
TextAbsent ==
    /\ txtPc = "absent"
    /\ textFile = << >>
    /\ asciiStream = << >>
    /\ hasCommasBetweenValues = FALSE
    /\ tofill = << >>
    /\ status = TRUE

\* no geometry is being constructed
GeometryAbsent ==
    /\ geoPc = "absent"
    /\ hbFile = << >>
    /\ heFile = << >>
    /\ directions_ = << >>
    /\ geoError = NoError

\* no functor has been made
NoFunctor == [value |-> 0, element |-> << >>]

FunctorsAbsent ==
    /\ f1_ = NoFunctor
    /\ f2_ = NoFunctor
    /\ fnRet = NoCall

\* Fault variant of getSubdetector: the ring |ieta| = 16 is taken for a
\* barrel ring at every depth.
getSubdetectorBarrel16(depth, ieta) ==
    LET abseta == Abs(ieta)
    IN IF ~(abseta <= 29) \/ ~(depth > 0 /\ depth < 4)
          \/ (abseta = 29 /\ ~(depth <= 2))
       THEN "assert_failed"
       ELSE IF abseta <= 16 THEN "HcalBarrel"
       ELSE "HcalEndcap"

(***************************************************************************)
(* HBHEChannelMap::getSubdetector.  The three assertions come first; a     *)
(* failed assertion aborts the program and nothing is returned.            *)
(***************************************************************************)
getSubdetector(depth, ieta) ==
    LET abseta == Abs(ieta)
    IN IF ~(abseta <= 29) \/ ~(depth > 0 /\ depth < 4)
          \/ (abseta = 29 /\ ~(depth <= 2))
       THEN "assert_failed"
       ELSE IF abseta <= 15 THEN "HcalBarrel"
       ELSE IF abseta = 16
            THEN (IF depth <= 2 THEN "HcalBarrel" ELSE "HcalEndcap")
       ELSE "HcalEndcap"

(***************************************************************************)
(* HcalHPDRBXMap::indexHPD and indexRBXfromHPD: the external hardware map. *)
(* Its table is not part of the channel map; the model takes a strip map:  *)
(* one block of NPhi modules per subdetector and side, a module covering   *)
(* w consecutive azimuthal bins, and four modules to a readout box.        *)
(***************************************************************************)
indexHPD(w, sub, ieta, iphi, depth) ==
    (IF sub = "HcalBarrel" THEN 0 ELSE 2 * NPhi)
    + (IF ieta < 0 THEN NPhi ELSE 0)
    + ((iphi - 1) \div w)

indexRBXfromHPD(hpd) == hpd \div (NUM_HPDS \div NUM_RBXS)

(***************************************************************************)
(* The std::map inverse_, tabulated on the keys that pass the assertions   *)
(* of getSubdetector and have an azimuthal bin of the detector; every      *)
(* other key is absent from the map.                                       *)
(***************************************************************************)
InverseEmpty ==
    [d \in 1..MaxDepth |->
        [e \in (-MaxAbsEta)..MaxAbsEta |->
            [p \in 1..NPhi |-> NotFound]]]

\* Fault variant of IndexOne: the position within the module is taken
\* after the push_back, so that it counts the channel itself.
IndexOnePositionAfterPush(st, i, w) ==
    LET cid == st.lookup_[i]
        sub == getSubdetector(cid.depth, cid.ieta)
        hpd == indexHPD(w, sub, cid.ieta, cid.iphi, cid.depth)
        rbx == indexRBXfromHPD(hpd)
    IN IF st.failed \/ sub = "assert_failed"
          \/ ~(hpd >= 0 /\ hpd < NUM_HPDS) \/ ~(rbx >= 0 /\ rbx < NUM_RBXS)
       THEN [st EXCEPT !.failed = TRUE]
       ELSE [st EXCEPT
              !.inverse_[cid.depth][cid.ieta][cid.iphi] = i,
              !.hpd_lookup_[i] = hpd,
              !.chan_in_hpd_lookup_[i] = Len(st.hpd_channel_lookup_[hpd]) + 1,
              !.hpd_channel_lookup_[hpd] = Append(@, i),
              !.rbx_lookup_[i] = rbx,
              !.chan_in_rbx_lookup_[i] = Len(st.rbx_channel_lookup_[rbx]),
              !.rbx_channel_lookup_[rbx] = Append(@, i)]

(***************************************************************************)
(* The body of "for (unsigned i=0; i<ChannelCount; ++i)" of the            *)
(* constructor, on the record st of the members it reads and writes.       *)
(***************************************************************************)
IndexOne(st, i, w) ==
    LET cid == st.lookup_[i]
        sub == getSubdetector(cid.depth, cid.ieta)
        hpd == indexHPD(w, sub, cid.ieta, cid.iphi, cid.depth)
        rbx == indexRBXfromHPD(hpd)
    IN IF st.failed \/ sub = "assert_failed"
          \/ ~(hpd >= 0 /\ hpd < NUM_HPDS) \/ ~(rbx >= 0 /\ rbx < NUM_RBXS)
       THEN [st EXCEPT !.failed = TRUE]
       ELSE [st EXCEPT
              !.inverse_[cid.depth][cid.ieta][cid.iphi] = i,
              !.hpd_lookup_[i] = hpd,
              !.chan_in_hpd_lookup_[i] = Len(st.hpd_channel_lookup_[hpd]),
              !.hpd_channel_lookup_[hpd] = Append(@, i),
              !.rbx_lookup_[i] = rbx,
              !.chan_in_rbx_lookup_[i] = Len(st.rbx_channel_lookup_[rbx]),
              !.rbx_channel_lookup_[rbx] = Append(@, i)]

\* the loop over i = lo, lo+1, ..., hi, in that order; once an assertion
\* has failed the remaining passes are not run
RECURSIVE IndexRange(_, _, _, _)
IndexRange(st, lo, hi, w) ==
    IF st.failed \/ lo > hi THEN st
    ELSE IF lo = hi THEN IndexOne(st, lo, w)
    ELSE LET mid == (lo + hi) \div 2
         IN IndexRange(IndexRange(st, lo, mid, w), mid + 1, hi, w)

\* Fault variant of Construct: the order of the enumeration depends on the
\* hardware map, the list starting w - 1 positions further on.
ConstructOrderFromHardware(w) ==
    LET n == Len(CtorWrites)
        st0 == [ failed |-> (n # ChannelCount),
                 l |-> n,
                 overflow |-> (n > ChannelCount),
                 lookup_ |-> [i \in 0..(ChannelCount - 1) |->
                                CtorWrites[((i + w - 1) % n) + 1]],
                 inverse_ |-> InverseEmpty,
                 hpd_lookup_ |-> [i \in 0..(ChannelCount - 1) |-> 0],
                 chan_in_hpd_lookup_ |-> [i \in 0..(ChannelCount - 1) |-> 0],
                 hpd_channel_lookup_ |-> [h \in 0..(NUM_HPDS - 1) |-> << >>],
                 rbx_lookup_ |-> [i \in 0..(ChannelCount - 1) |-> 0],
                 chan_in_rbx_lookup_ |-> [i \in 0..(ChannelCount - 1) |-> 0],
                 rbx_channel_lookup_ |-> [r \in 0..(NUM_RBXS - 1) |-> << >>] ]
    IN IndexRange(st0, 0, ChannelCount - 1, w)

(***************************************************************************)
(* HBHEChannelMap::HBHEChannelMap with the hardware map of strip width w:  *)
(* the member initialisers, the thirteen loops, assert(l == ChannelCount)  *)
(* and the index-building loop.  A write at a position >= ChannelCount is  *)
(* outside the array lookup_ and is recorded in overflow.                  *)
(***************************************************************************)
Construct(w) ==
    LET n == Len(CtorWrites)
        st0 == [ failed |-> (n # ChannelCount),
                 l |-> n,
                 overflow |-> (n > ChannelCount),
                 lookup_ |-> [i \in 0..(ChannelCount - 1) |->
                                IF i < n THEN CtorWrites[i + 1]
                                         ELSE NoChannelId],
                 inverse_ |-> InverseEmpty,
                 hpd_lookup_ |-> [i \in 0..(ChannelCount - 1) |-> 0],
                 chan_in_hpd_lookup_ |-> [i \in 0..(ChannelCount - 1) |-> 0],
                 hpd_channel_lookup_ |-> [h \in 0..(NUM_HPDS - 1) |-> << >>],
                 rbx_lookup_ |-> [i \in 0..(ChannelCount - 1) |-> 0],
                 chan_in_rbx_lookup_ |-> [i \in 0..(ChannelCount - 1) |-> 0],
                 rbx_channel_lookup_ |-> [r \in 0..(NUM_RBXS - 1) |-> << >>] ]
    IN IndexRange(st0, 0, ChannelCount - 1, w)

Init ==
    \E w \in 1..MaxStripWidth :
      \E built \in { Construct(w) } :
        /\ pc = IF built.failed THEN "abort" ELSE "ready"
        /\ l = built.l
        /\ overflow = built.overflow
        /\ hpdMap = w
        /\ lookup_ = built.lookup_
        /\ inverse_ = built.inverse_
        /\ hpd_lookup_ = built.hpd_lookup_
        /\ chan_in_hpd_lookup_ = built.chan_in_hpd_lookup_
        /\ hpd_channel_lookup_ = built.hpd_channel_lookup_
        /\ rbx_lookup_ = built.rbx_lookup_
        /\ chan_in_rbx_lookup_ = built.chan_in_rbx_lookup_
        /\ rbx_channel_lookup_ = built.rbx_channel_lookup_
        /\ neighborInfoFilled_ = FALSE
        /\ hpdNeighborsFilled_ = FALSE
        /\ channel_neighbors_ = [i \in 0..(ChannelCount - 1) |-> << >>]
        /\ hpd_neighbors_ = [h \in 0..(NUM_HPDS - 1) |-> << >>]
        /\ ret = NoCall
        /\ SelectorIdle
        /\ ThreadsIdle
        /\ AnalysisAbsent
        /\ TextAbsent
        /\ GeometryAbsent
        /\ FunctorsAbsent

(***************************************************************************)
(* Lookups.  Each returns a record: status "ok" and the value, or the      *)
(* exception thrown.                                                       *)
(***************************************************************************)
Ok(v) == [status |-> "ok", val |-> v]
Thrown(e, v) == [status |-> e, val |-> v]

\* inverse_.find(key): the mapped index, or NotFound for end()
find(key) ==
    IF /\ key.depth \in 1..MaxDepth
       /\ key.ieta \in (-MaxAbsEta)..MaxAbsEta
       /\ key.iphi \in 1..NPhi
    THEN inverse_[key.depth][key.ieta][key.iphi]
    ELSE NotFound

getChannelTriple(index) ==
    IF index >= ChannelCount
    THEN Thrown("out_of_range", NoChannelId)
    ELSE Ok(lookup_[index])

\* Fault variant of getHPD: the range check is "index > ChannelCount"; the
\* read one past the end of hpd_lookup_ yields some module number.
getHPDOffByOne(index) ==
    IF index > ChannelCount
    THEN Thrown("out_of_range", NotFound)
    ELSE Ok(IF index < ChannelCount THEN hpd_lookup_[index] ELSE 0)

getHPD(index) ==
    IF index >= ChannelCount
    THEN Thrown("out_of_range", NotFound)
    ELSE Ok(hpd_lookup_[index])

getChannelInHPD(index) ==
    IF index >= ChannelCount
    THEN Thrown("out_of_range", NotFound)
    ELSE Ok(chan_in_hpd_lookup_[index])

getRBX(index) ==
    IF index >= ChannelCount
    THEN Thrown("out_of_range", NotFound)
    ELSE Ok(rbx_lookup_[index])

getChannelInRBX(index) ==
    IF index >= ChannelCount
    THEN Thrown("out_of_range", NotFound)
    ELSE Ok(chan_in_rbx_lookup_[index])

isValidTriple(depth, ieta, iphi) ==
    find(HBHEChannelId(depth, ieta, iphi)) # NotFound

\* Fault variant of linearIndex: end() is not tested and an absent triple
\* yields the index 0.
linearIndexNoThrow(depth, ieta, iphi) ==
    LET it == find(HBHEChannelId(depth, ieta, iphi))
    IN Ok(IF it = NotFound THEN 0 ELSE it)

linearIndex(depth, ieta, iphi) ==
    LET it == find(HBHEChannelId(depth, ieta, iphi))
    IN IF it = NotFound
       THEN Thrown("invalid_argument", NotFound)
       ELSE Ok(it)

(***************************************************************************)
(* HBHEChannelMap::calculateNeighborList                                   *)
(***************************************************************************)
\* Fault variant of ShiftEta: no jump over ieta = 0.
ShiftEtaNoJump(eta0, etaShift) == eta0 + etaShift

\* "int iEta = eta0 + etaShift; if (iEta == 0) iEta += etaShift;"
ShiftEta(eta0, etaShift) ==
    LET iEta == eta0 + etaShift
    IN IF iEta = 0 THEN iEta + etaShift ELSE iEta

\* Fault variant of WrapPhi: 73 is not wrapped to 1.
WrapPhiNoUpperWrap(phi0, phiShift) ==
    LET iPhi == phi0 + phiShift
    IN IF iPhi = 0 THEN 72 ELSE iPhi

\* "int iPhi = phi0 + phiShift;" with 0 wrapped to 72 and 73 to 1
WrapPhi(phi0, phiShift) ==
    LET iPhi == phi0 + phiShift
    IN IF iPhi = 0 THEN 72 ELSE IF iPhi = 73 THEN 1 ELSE iPhi

\* the (etaShift, phiShift) pairs in the order the two loops visit them,
\* without the pair (0, 0) that "if (etaShift || phiShift)" leaves out
NeighborShifts ==
    << <<-1, -1>>, <<-1, 0>>, <<-1, 1>>,
       << 0, -1>>,            << 0, 1>>,
       << 1, -1>>, << 1, 0>>, << 1, 1>> >>

\* Fault variant of calculateNeighborList: "myHPD < getHPD(neighbor)" in
\* place of "myHPD != getHPD(neighbor)".
calculateNeighborListHigherHPD(index) ==
    LET depth == lookup_[index].depth
        eta0 == lookup_[index].ieta
        phi0 == lookup_[index].iphi
        myHPD == hpd_lookup_[index]
        found == [k \in 1..Len(NeighborShifts) |->
                    find(HBHEChannelId(depth,
                                       ShiftEta(eta0, NeighborShifts[k][1]),
                                       WrapPhi(phi0, NeighborShifts[k][2])))]
        neighborChannels ==
            SelectSeq(found,
                      LAMBDA n : n # NotFound /\ myHPD < hpd_lookup_[n])
    IN SortSeq(neighborChannels, <)

calculateNeighborList(index) ==
    LET depth == lookup_[index].depth
        eta0 == lookup_[index].ieta
        phi0 == lookup_[index].iphi
        myHPD == hpd_lookup_[index]
        found == [k \in 1..Len(NeighborShifts) |->
                    find(HBHEChannelId(depth,
                                       ShiftEta(eta0, NeighborShifts[k][1]),
                                       WrapPhi(phi0, NeighborShifts[k][2])))]
        neighborChannels ==
            SelectSeq(found,
                      LAMBDA n : n # NotFound /\ myHPD # hpd_lookup_[n])
    IN SortSeq(neighborChannels, <)

\* the loop "for (i=0; i<ChannelCount; ++i) calculateNeighborList(i, ...)"
FillChannelNeighbors ==
    [i \in 0..(ChannelCount - 1) |-> calculateNeighborList(i)]

(***************************************************************************)
(* HBHEChannelMap::calculateHPDNeighbors, reading the channel lists chNb   *)
(***************************************************************************)
\* the elements of a std::set<unsigned> in iteration (ascending) order
RECURSIVE Ascending(_)
Ascending(S) ==
    IF S = {} THEN << >>
    ELSE LET m == CHOOSE x \in S : \A y \in S : x <= y
         IN << m >> \o Ascending(S \ {m})

\* Fault variant of calculateHPDNeighbors: the neighbours are collected in
\* a vector, so a channel that neighbours two members appears twice.
RECURSIVE concatNeighbors(_, _, _)
concatNeighbors(hpdChannels, chNb, ichan) ==
    IF ichan > Len(hpdChannels) THEN << >>
    ELSE chNb[hpdChannels[ichan]]
            \o concatNeighbors(hpdChannels, chNb, ichan + 1)

\* Fault variant of calculateHPDNeighbors: the loop over the channels of
\* the module stops before the last one.
calculateHPDNeighborsSkipLastMember(hpd, chNb) ==
    LET hpdChannels == hpd_channel_lookup_[hpd]
        neighborSet ==
            UNION { { chNb[hpdChannels[ichan]][ineib] :
                        ineib \in 1..Len(chNb[hpdChannels[ichan]]) } :
                    ichan \in 1..(Len(hpdChannels) - 1) }
    IN SortSeq(Ascending(neighborSet), <)

calculateHPDNeighborsKeepDuplicates(hpd, chNb) ==
    SortSeq(concatNeighbors(hpd_channel_lookup_[hpd], chNb, 1), <)

calculateHPDNeighbors(hpd, chNb) ==
    LET hpdChannels == hpd_channel_lookup_[hpd]
        neighborSet ==
            UNION { { chNb[hpdChannels[ichan]][ineib] :
                        ineib \in 1..Len(chNb[hpdChannels[ichan]]) } :
                    ichan \in 1..Len(hpdChannels) }
    IN SortSeq(Ascending(neighborSet), <)

(***************************************************************************)
(* Calls on the constructed map.  A call is made when the caller holds no  *)
(* pending result; Return is the caller taking the result.                 *)
(***************************************************************************)
Idle == pc = "ready" /\ ret = NoCall

Call(op, arg, res) ==
    [op |-> op, arg |-> arg, status |-> res.status, val |-> res.val]

\* arguments of the calls: rings at the ends of the detector, at the jump
\* over ieta = 0, at the barrel/endcap boundary and at the change of
\* azimuthal granularity, one ring outside the detector, and the azimuthal
\* bins at and beyond the wrap
QueryDepths == 0..4
QueryEtas == { -30, -29, -16, -1, 0, 1, 15, 16, 17, 20, 21, 29 }
QueryPhis == { 0, 1, 72, 73 }
QueryTriples ==
    { HBHEChannelId(d, e, p) : d \in QueryDepths, e \in QueryEtas,
                               p \in QueryPhis }
QueryIndices ==
    ({ find(t) : t \in QueryTriples } \ { NotFound })
        \cup ((ChannelCount - 1)..(ChannelCount + IndexSlack))

GetChannelTriple ==
    /\ Idle
    /\ \E index \in QueryIndices :
         ret' = Call("getChannelTriple", index, getChannelTriple(index))
    /\ UNCHANGED << fnVars, geoVars, txtVars, anaVars, threadVars, selVars, ctorVars, mapVars, cacheVars >>

GetHPD ==
    /\ Idle
    /\ \E index \in QueryIndices :
         ret' = Call("getHPD", index, getHPD(index))
    /\ UNCHANGED << fnVars, geoVars, txtVars, anaVars, threadVars, selVars, ctorVars, mapVars, cacheVars >>

GetChannelInHPD ==
    /\ Idle
    /\ \E index \in QueryIndices :
         ret' = Call("getChannelInHPD", index, getChannelInHPD(index))
    /\ UNCHANGED << fnVars, geoVars, txtVars, anaVars, threadVars, selVars, ctorVars, mapVars, cacheVars >>

GetRBX ==
    /\ Idle
    /\ \E index \in QueryIndices :
         ret' = Call("getRBX", index, getRBX(index))
    /\ UNCHANGED << fnVars, geoVars, txtVars, anaVars, threadVars, selVars, ctorVars, mapVars, cacheVars >>

GetChannelInRBX ==
    /\ Idle
    /\ \E index \in QueryIndices :
         ret' = Call("getChannelInRBX", index, getChannelInRBX(index))
    /\ UNCHANGED << fnVars, geoVars, txtVars, anaVars, threadVars, selVars, ctorVars, mapVars, cacheVars >>

IsValidTriple ==
    /\ Idle
    /\ \E t \in QueryTriples :
         ret' = Call("isValidTriple", t,
                     Ok(isValidTriple(t.depth, t.ieta, t.iphi)))
    /\ UNCHANGED << fnVars, geoVars, txtVars, anaVars, threadVars, selVars, ctorVars, mapVars, cacheVars >>

LinearIndex ==
    /\ Idle
    /\ \E t \in QueryTriples :
         ret' = Call("linearIndex", t,
                     linearIndex(t.depth, t.ieta, t.iphi))
    /\ UNCHANGED << fnVars, geoVars, txtVars, anaVars, threadVars, selVars, ctorVars, mapVars, cacheVars >>

\* HBHEChannelMap::channelNeigborsFromOtherHPDs: the value returned, filled
\* being the content of channel_neighbors_ once the cache is filled
channelNeigborsFromOtherHPDs(index, filled) ==
    IF index >= ChannelCount
    THEN Thrown("out_of_range", << >>)
    ELSE Ok(filled[index])

\* Fault variant of ChannelNeighborsCache: the fill loop runs to the
\* number of modules instead of the number of channels.
ChannelNeighborsCacheShortLoop ==
    IF neighborInfoFilled_ THEN channel_neighbors_
    ELSE [i \in 0..(ChannelCount - 1) |->
             IF i < NUM_HPDS THEN calculateNeighborList(i)
             ELSE << >>]

\* channel_neighbors_ as a call of channelNeigborsFromOtherHPDs leaves it
ChannelNeighborsCache ==
    IF neighborInfoFilled_ THEN channel_neighbors_ ELSE FillChannelNeighbors

\* Fault variant of ChannelNeigborsFromOtherHPDs: the cache is filled
\* before the index is tested.
ChannelNeigborsFromOtherHPDsFillFirst ==
    /\ Idle
    /\ \E filled \in { ChannelNeighborsCache } :
         \E index \in QueryIndices :
            /\ ret' = Call("channelNeigborsFromOtherHPDs", index,
                           channelNeigborsFromOtherHPDs(index, filled))
            /\ channel_neighbors_' = filled
            /\ neighborInfoFilled_' = TRUE
            /\ UNCHANGED << hpdNeighborsFilled_, hpd_neighbors_ >>
    /\ UNCHANGED << fnVars, geoVars, txtVars, anaVars, threadVars, selVars, ctorVars, mapVars >>

ChannelNeigborsFromOtherHPDs ==
    /\ Idle
    /\ \E filled \in { ChannelNeighborsCache } :
         \E index \in QueryIndices :
            /\ ret' = Call("channelNeigborsFromOtherHPDs", index,
                           channelNeigborsFromOtherHPDs(index, filled))
            /\ IF index >= ChannelCount
               THEN UNCHANGED cacheVars
               ELSE /\ channel_neighbors_' = filled
                    /\ neighborInfoFilled_' = TRUE
                    /\ UNCHANGED << hpdNeighborsFilled_, hpd_neighbors_ >>
    /\ UNCHANGED << fnVars, geoVars, txtVars, anaVars, threadVars, selVars, ctorVars, mapVars >>

\* modules passed to getHPDNeigbors
QueryHPDs ==
    { hpd_lookup_[i] : i \in QueryIndices \cap (0..(ChannelCount - 1)) }
        \cup ((NUM_HPDS - 1)..(NUM_HPDS + IndexSlack))

\* HBHEChannelMap::getHPDNeigbors.  calculateHPDNeighbors reaches the
\* channel lists through channelNeigborsFromOtherHPDs, which fills them on
\* the first call made for a module that has channels.
GetHPDNeigbors ==
    /\ Idle
    /\ \E called \in { \E i \in 0..(NUM_HPDS - 1) :
                            Len(hpd_channel_lookup_[i]) > 0 } :
       \E chNb \in { IF neighborInfoFilled_ \/ ~called \/ hpdNeighborsFilled_
                     THEN channel_neighbors_
                     ELSE FillChannelNeighbors } :
       \E filled \in { IF hpdNeighborsFilled_
                       THEN hpd_neighbors_
                       ELSE [i \in 0..(NUM_HPDS - 1) |->
                                calculateHPDNeighbors(i, chNb)] } :
         \E hpd \in QueryHPDs :
            IF hpd >= NUM_HPDS
            THEN /\ ret' = Call("getHPDNeigbors", hpd,
                                Thrown("out_of_range", << >>))
                 /\ UNCHANGED cacheVars
            ELSE IF hpdNeighborsFilled_
            THEN /\ ret' = Call("getHPDNeigbors", hpd,
                                Ok(hpd_neighbors_[hpd]))
                 /\ UNCHANGED cacheVars
            ELSE /\ channel_neighbors_' = chNb
                 /\ neighborInfoFilled_' = (neighborInfoFilled_ \/ called)
                 /\ hpd_neighbors_' = filled
                 /\ hpdNeighborsFilled_' = TRUE
                 /\ ret' = Call("getHPDNeigbors", hpd, Ok(filled[hpd]))
    /\ UNCHANGED << fnVars, geoVars, txtVars, anaVars, threadVars, selVars, ctorVars, mapVars >>

\* HBHEChannelMap::getSubdetector is static
GetSubdetector ==
    /\ Idle
    /\ \E depth \in QueryDepths, ieta \in QueryEtas :
         ret' = Call("getSubdetector", << depth, ieta >>,
                     LET sub == getSubdetector(depth, ieta)
                     IN IF sub = "assert_failed"
                        THEN Thrown("assert_failed", "none")
                        ELSE Ok(sub))
    /\ UNCHANGED << fnVars, geoVars, txtVars, anaVars, threadVars, selVars, ctorVars, mapVars, cacheVars >>

\* the caller takes the result of the call
Return ==
    /\ pc = "ready"
    /\ ret # NoCall
    /\ ret' = NoCall
    /\ UNCHANGED << fnVars, geoVars, txtVars, anaVars, threadVars, selVars, ctorVars, mapVars, cacheVars >>

Next ==
    \/ GetChannelTriple
    \/ GetHPD
    \/ GetChannelInHPD
    \/ GetRBX
    \/ GetChannelInRBX
    \/ IsValidTriple
    \/ LinearIndex
    \/ ChannelNeigborsFromOtherHPDs
    \/ GetHPDNeigbors
    \/ GetSubdetector
    \/ Return

Spec == Init /\ [][Next]_vars

(***************************************************************************)
(* Jet-based channel selection: FFTJetChannelSelector::select.             *)
(*                                                                         *)
(* The selector is given the jets the clustering engine found (each with   *)
(* its transverse momentum and its total transverse energy) and, for each  *)
(* channel of the event, its transverse energy and its angular distance    *)
(* to every jet.  Energies are integers; the Et fraction is in percent     *)
(* and distances are in tenths, so that the comparisons are exact.         *)
(***************************************************************************)

\* --etFractionCutoff, default 0.02, in percent
etFractionCutoff == 2

\* --jetPtCutoff, default 20.0
jetPtCutoff == 20

\* --coneSize, default 0.5, in tenths
coneSize == 5

\* the "no jet" value of a channel's association
NoJet == 0

\* bounds of the events
MaxJets == 2
MaxChannels == 3

\* transverse momenta below, at and above the cutoff, total energies, channel
\* energies, and distances inside, on the edge of and outside the cone
JetPts == { jetPtCutoff - 1, jetPtCutoff, jetPtCutoff + 1 }
JetEnergies == { 0, 100 }
ChannelEnergies == { -1, 1, 2, 97 }
Distances == { 0, coneSize, coneSize + 1 }

JetCandidates == [pt : JetPts, et : JetEnergies]

\* Fault variant of nearestFrom: a jet at the same distance as the nearest
\* one so far replaces it.
RECURSIVE nearestFromLastWins(_, _, _)
nearestFromLastWins(distance, k, best) ==
    IF k > Len(distance) THEN best
    ELSE nearestFromLastWins(distance, k + 1,
            IF best = NoJet \/ distance[k] <= distance[best]
            THEN k ELSE best)

\* the loop over the jet candidates, in candidate order, that keeps the
\* nearest jet seen so far: jets k.. are still to be looked at
RECURSIVE nearestFrom(_, _, _)
nearestFrom(distance, k, best) ==
    IF k > Len(distance) THEN best
    ELSE nearestFrom(distance, k + 1,
            IF best = NoJet \/ distance[k] < distance[best]
            THEN k ELSE best)

\* Fault variant of associate: the nearest jet is taken whatever its
\* distance.
associateNoCone(channels, jets, cone_radius) ==
    [c \in 1..Len(channels) |->
        nearestFrom(channels[c].distance, 1, NoJet)]

\* associate(channels, jets, cone_radius): per channel, the nearest jet if
\* it is within the cone, NoJet otherwise
associate(channels, jets, cone_radius) ==
    [c \in 1..Len(channels) |->
        LET best == nearestFrom(channels[c].distance, 1, NoJet)
        IN IF best # NoJet /\ channels[c].distance[best] <= cone_radius
           THEN best ELSE NoJet]

\* operator< of std::pair<double,int>
PairLess(a, b) == a[1] < b[1] \/ (a[1] = b[1] /\ a[2] < b[2])

\* jetChannels_[ijet]: the (Et, channel) pairs of the channels associated
\* with the jet, in channel order, then sorted
jetChannelList(assoc, channels, ijet) ==
    LET members == SelectSeq([c \in 1..Len(channels) |-> c],
                             LAMBDA c : assoc[c] = ijet)
    IN SortSeq([k \in 1..Len(members) |->
                   << channels[members[k]].energy, members[k] >>],
               PairLess)

\* Fault variant of withinBudget: the running sum must stay strictly below
\* the budget.
withinBudgetStrict(sum, total) == sum * 100 < etFractionCutoff * total

\* the running discard sum does not exceed f x jet_total_energy
withinBudget(sum, total) == sum * 100 <= etFractionCutoff * total

\* Fault variant of discardFrom: the channel that takes the running sum
\* over the budget is discarded as well.
RECURSIVE discardFromInclusive(_, _, _, _)
discardFromInclusive(chans, k, running, total) ==
    IF k > Len(chans) THEN Len(chans)
    ELSE IF withinBudget(running + chans[k][1], total)
         THEN discardFromInclusive(chans, k + 1, running + chans[k][1], total)
         ELSE k

\* the pass over the sorted channels of a jet from position k on, running
\* being the sum of the k - 1 energies before: the number of channels
\* discarded
RECURSIVE discardFrom(_, _, _, _)
discardFrom(chans, k, running, total) ==
    IF k > Len(chans) THEN Len(chans)
    ELSE IF withinBudget(running + chans[k][1], total)
         THEN discardFrom(chans, k + 1, running + chans[k][1], total)
         ELSE k - 1

\* Fault variant of discardCount: a jet of zero total energy is pruned
\* like any other.
discardCountNoZeroCase(chans, total) == discardFrom(chans, 1, 0, total)

\* EnergyBudgetPruner on one jet: the number of channels discarded from the
\* low end of its sorted list; a jet of zero total energy loses them all
discardCount(chans, total) ==
    IF total = 0 THEN Len(chans) ELSE discardFrom(chans, 1, 0, total)

\* Fault variant of belowFloor: the floor is taken one unit too low.
belowFloorOffByOne(pt) == pt < jetPtCutoff - 1

\* the momentum floor: the jet's transverse momentum is below jetPtCutoff
belowFloor(pt) == pt < jetPtCutoff

\* Fault variant of associatedPt: the momentum of the associated jet is
\* reported for discarded channels as well.
associatedPtOfAnyJet(isSelected, jets, ijet) ==
    IF ijet # NoJet THEN jets[ijet].pt ELSE 0

\* the associated-jet momentum written for a channel: that of its jet if
\* the channel is selected, 0 otherwise
associatedPt(isSelected, jets, ijet) ==
    IF isSelected THEN jets[ijet].pt ELSE 0

\* FFTJetChannelSelector::select on the event (jets, channels)
select(jets, channels) ==
    LET assoc == associate(channels, jets, coneSize)
        lists == [j \in 1..Len(jets) |->
                     jetChannelList(assoc, channels, j)]
        discarded ==
            UNION { { lists[j][k][2] :
                        k \in 1..discardCount(lists[j], jets[j].et) } :
                    j \in 1..Len(jets) }
        selected == [c \in 1..Len(channels) |->
                        /\ assoc[c] # NoJet
                        /\ c \notin discarded
                        /\ ~belowFloor(jets[assoc[c]].pt)]
    IN [ closestJet |-> assoc,
         jetChannels_ |-> lists,
         budgetDiscarded |-> discarded,
         mask |-> [c \in 1..Len(channels) |->
                      IF selected[c] THEN 1 ELSE 0],
         associatedJetPt |-> [c \in 1..Len(channels) |->
                      associatedPt(selected[c], jets, assoc[c])] ]

\* the channel map is not part of the selector
MapAbsent ==
    /\ pc = "absent"
    /\ l = 0
    /\ overflow = FALSE
    /\ hpdMap = 0
    /\ lookup_ = << >>
    /\ inverse_ = << >>
    /\ hpd_lookup_ = << >>
    /\ chan_in_hpd_lookup_ = << >>
    /\ hpd_channel_lookup_ = << >>
    /\ rbx_lookup_ = << >>
    /\ chan_in_rbx_lookup_ = << >>
    /\ rbx_channel_lookup_ = << >>
    /\ neighborInfoFilled_ = FALSE
    /\ hpdNeighborsFilled_ = FALSE
    /\ channel_neighbors_ = << >>
    /\ hpd_neighbors_ = << >>
    /\ ret = NoCall

SelInit ==
    /\ MapAbsent /\ SelectorIdle /\ ThreadsIdle /\ AnalysisAbsent
    /\ TextAbsent /\ GeometryAbsent /\ FunctorsAbsent

\* one call of select, on any event within the bounds
Select ==
    /\ selPc = "idle"
    /\ \E nJets \in 0..MaxJets, nChannels \in 0..MaxChannels :
         \E jets \in [1..nJets -> JetCandidates] :
            \E channels \in [1..nChannels ->
                               [energy : ChannelEnergies,
                                distance : [1..nJets -> Distances]]] :
               \E out \in { select(jets, channels) } :
                  /\ event' = [jets |-> jets, channels |-> channels]
                  /\ closestJet' = out.closestJet
                  /\ jetChannels_' = out.jetChannels_
                  /\ budgetDiscarded' = out.budgetDiscarded
                  /\ mask' = out.mask
                  /\ associatedJetPt' = out.associatedJetPt
    /\ selPc' = "selected"
    /\ UNCHANGED << fnVars, geoVars, txtVars, anaVars, threadVars, ctorVars, mapVars, cacheVars, ret >>

\* the event is done with; its working state is dropped
EndEvent ==
    /\ selPc = "selected"
    /\ selPc' = "idle"
    /\ event' = NoEvent
    /\ closestJet' = << >>
    /\ jetChannels_' = << >>
    /\ budgetDiscarded' = {}
    /\ mask' = << >>
    /\ associatedJetPt' = << >>
    /\ UNCHANGED << fnVars, geoVars, txtVars, anaVars, threadVars, ctorVars, mapVars, cacheVars, ret >>

SelNext ==
    \/ Select
    \/ EndEvent

SelSpec == SelInit /\ [][SelNext]_vars

(***************************************************************************)
(* Several threads that share one constructed HBHEChannelMap.  A call of   *)
(* channelNeigborsFromOtherHPDs or getHPDNeigbors is taken in steps: the   *)
(* range check, the test of the filled flag, the fill loop (the thread is  *)
(* in the loop from the test to the step that completes the writes and     *)
(* sets the flag) and the read of the list returned.  Unsynchronised       *)
(* accesses of one cache by two threads, one of them writing, are a data   *)
(* race: the lists written or read are then either the computed ones or    *)
(* torn ones, and the kind of race is recorded in races.                   *)
(***************************************************************************)

\* the arguments the threads pass: a channel, its module, and the first
\* index and module out of range
ThreadIndices == { find(HBHEChannelId(1, 1, 1)), ChannelCount }
ThreadHPDs == { hpd_lookup_[find(HBHEChannelId(1, 1, 1))], NUM_HPDS }

\* Fault variant of mustFill: the flag is not looked at.
mustFillAlways(filled) == TRUE

\* "if (!neighborInfoFilled_)", "if (!hpdNeighborsFilled_)"
mustFill(filled) == ~filled

\* lists seen between vec->clear() and the push_backs
Torn(table) == [i \in DOMAIN table |-> << >>]

\* thread t is in the loop that writes channel_neighbors_
InChannelFill(t) == threads[t].pc \in { "chan_fill", "hpd_chan_fill" }

\* thread t is in the loop that writes hpd_neighbors_
InHPDFill(t) ==
    threads[t].pc \in { "hpd_chan_test", "hpd_chan_fill", "hpd_fill" }

ThreadAt(t, pos) == [threads EXCEPT ![t].pc = pos]

ThreadDone(t, op, arg, res) ==
    [threads EXCEPT ![t] = [pc |-> "done", op |-> op, arg |-> arg,
                            status |-> res.status, val |-> res.val]]

\* a step of a thread leaves everything but the caches and the threads alone
ThreadFrame ==
    UNCHANGED << ctorVars, mapVars, ret, selVars, anaVars, txtVars,
                 geoVars, fnVars >>

\* channelNeigborsFromOtherHPDs is called: the range check
ThreadCallChannel(t) ==
    /\ pc = "ready"
    /\ threads[t].pc = "idle"
    /\ \E index \in ThreadIndices :
         threads' = IF index >= ChannelCount
                    THEN ThreadDone(t, "channelNeigborsFromOtherHPDs", index,
                                    Thrown("out_of_range", << >>))
                    ELSE [threads EXCEPT ![t] =
                             [pc |-> "chan_test", arg |-> index]]
    /\ UNCHANGED << races, cacheVars >>
    /\ ThreadFrame

\* channelNeigborsFromOtherHPDs: the test of neighborInfoFilled_
ChannelTest(t) ==
    /\ threads[t].pc = "chan_test"
    /\ threads' = ThreadAt(t, IF mustFill(neighborInfoFilled_)
                              THEN "chan_fill" ELSE "chan_return")
    /\ UNCHANGED << races, cacheVars >>
    /\ ThreadFrame

\* the fill loop of channel_neighbors_ completes and the flag is set
FillChannelLists(t, next) ==
    LET conflict == \E u \in Threads \ { t } : InChannelFill(u)
    IN /\ \E filled \in { FillChannelNeighbors } :
            channel_neighbors_' \in
               IF conflict THEN { filled, Torn(filled) } ELSE { filled }
       /\ neighborInfoFilled_' = TRUE
       /\ races' = IF conflict THEN races \cup { "write_write" } ELSE races
       /\ threads' = ThreadAt(t, next)

ChannelFill(t) ==
    /\ threads[t].pc = "chan_fill"
    /\ FillChannelLists(t, "chan_return")
    /\ UNCHANGED << hpdNeighborsFilled_, hpd_neighbors_ >>
    /\ ThreadFrame

\* channelNeigborsFromOtherHPDs returns channel_neighbors_[index] and the
\* caller reads the list
ChannelReturn(t) ==
    /\ threads[t].pc = "chan_return"
    /\ LET conflict == \E u \in Threads \ { t } : InChannelFill(u)
           list == channel_neighbors_[threads[t].arg]
       IN /\ \E val \in (IF conflict THEN { list, << >> } ELSE { list }) :
               threads' = ThreadDone(t, "channelNeigborsFromOtherHPDs",
                                     threads[t].arg, Ok(val))
          /\ races' = IF conflict THEN races \cup { "read_write" }
                      ELSE races
    /\ UNCHANGED cacheVars
    /\ ThreadFrame

\* getHPDNeigbors is called: the range check
ThreadCallHPD(t) ==
    /\ pc = "ready"
    /\ threads[t].pc = "idle"
    /\ \E hpd \in ThreadHPDs :
         threads' = IF hpd >= NUM_HPDS
                    THEN ThreadDone(t, "getHPDNeigbors", hpd,
                                    Thrown("out_of_range", << >>))
                    ELSE [threads EXCEPT ![t] =
                             [pc |-> "hpd_test", arg |-> hpd]]
    /\ UNCHANGED << races, cacheVars >>
    /\ ThreadFrame

\* getHPDNeigbors: the test of hpdNeighborsFilled_
HPDTest(t) ==
    /\ threads[t].pc = "hpd_test"
    /\ threads' = ThreadAt(t, IF mustFill(hpdNeighborsFilled_)
                              THEN "hpd_chan_test" ELSE "hpd_return")
    /\ UNCHANGED << races, cacheVars >>
    /\ ThreadFrame

\* calculateHPDNeighbors calls channelNeigborsFromOtherHPDs: the test of
\* neighborInfoFilled_ in the first of these calls
HPDChannelTest(t) ==
    /\ threads[t].pc = "hpd_chan_test"
    /\ threads' = ThreadAt(t, IF mustFill(neighborInfoFilled_)
                              THEN "hpd_chan_fill" ELSE "hpd_fill")
    /\ UNCHANGED << races, cacheVars >>
    /\ ThreadFrame

\* the fill loop of channel_neighbors_ inside that call
HPDChannelFill(t) ==
    /\ threads[t].pc = "hpd_chan_fill"
    /\ FillChannelLists(t, "hpd_fill")
    /\ UNCHANGED << hpdNeighborsFilled_, hpd_neighbors_ >>
    /\ ThreadFrame

\* the fill loop of hpd_neighbors_ completes and the flag is set
HPDFill(t) ==
    /\ threads[t].pc = "hpd_fill"
    /\ LET writers == \E u \in Threads \ { t } : threads[u].pc = "hpd_fill"
           readsTorn == \E u \in Threads \ { t } : InChannelFill(u)
       IN /\ \E chNb \in (IF readsTorn
                          THEN { channel_neighbors_,
                                 Torn(channel_neighbors_) }
                          ELSE { channel_neighbors_ }) :
             \E filled \in { [i \in 0..(NUM_HPDS - 1) |->
                                calculateHPDNeighbors(i, chNb)] } :
                hpd_neighbors_' \in
                   IF writers THEN { filled, Torn(filled) } ELSE { filled }
          /\ races' = races
                        \cup (IF writers THEN { "write_write" } ELSE {})
                        \cup (IF readsTorn THEN { "read_write" } ELSE {})
    /\ hpdNeighborsFilled_' = TRUE
    /\ threads' = ThreadAt(t, "hpd_return")
    /\ UNCHANGED << neighborInfoFilled_, channel_neighbors_ >>
    /\ ThreadFrame

\* getHPDNeigbors returns hpd_neighbors_[hpd] and the caller reads the list
HPDReturn(t) ==
    /\ threads[t].pc = "hpd_return"
    /\ LET conflict == \E u \in Threads \ { t } : threads[u].pc = "hpd_fill"
           list == hpd_neighbors_[threads[t].arg]
       IN /\ \E val \in (IF conflict THEN { list, << >> } ELSE { list }) :
               threads' = ThreadDone(t, "getHPDNeigbors",
                                     threads[t].arg, Ok(val))
          /\ races' = IF conflict THEN races \cup { "read_write" }
                      ELSE races
    /\ UNCHANGED cacheVars
    /\ ThreadFrame

\* one of the lookups that read the tables the constructor filled
ThreadLookup(t) ==
    /\ pc = "ready"
    /\ threads[t].pc = "idle"
    /\ \E index \in ThreadIndices :
         \/ threads' = ThreadDone(t, "getHPD", index, getHPD(index))
         \/ threads' = ThreadDone(t, "getChannelTriple", index,
                                  getChannelTriple(index))
    /\ UNCHANGED << races, cacheVars >>
    /\ ThreadFrame

\* the caller is done with the result
ThreadReturn(t) ==
    /\ threads[t].pc = "done"
    /\ threads' = [threads EXCEPT ![t] = NoThreadCall]
    /\ UNCHANGED << races, cacheVars >>
    /\ ThreadFrame

ConcNext ==
    \E t \in Threads :
       \/ ThreadCallChannel(t)
       \/ ChannelTest(t)
       \/ ChannelFill(t)
       \/ ChannelReturn(t)
       \/ ThreadCallHPD(t)
       \/ HPDTest(t)
       \/ HPDChannelTest(t)
       \/ HPDChannelFill(t)
       \/ HPDFill(t)
       \/ HPDReturn(t)
       \/ ThreadLookup(t)
       \/ ThreadReturn(t)

ConcSpec == Init /\ [][ConcNext]_vars

(***************************************************************************)
(* The analysis job: SelectGoodChannelsOptions::parse, the constructor of  *)
(* SelectGoodChannels (a NoiseTreeHelper), and the calls made on the       *)
(* object for each entry of the tree.  The job starts with the options     *)
(* default-constructed; eMinTS_ and eMaxTS_ hold the values the            *)
(* NoiseTreeHelper constructor gives them.  Charges, pedestals and gains   *)
(* are integers.                                                           *)
(***************************************************************************)

\* N_TIME_SLICES
N_TIME_SLICES == 10

\* NoiseTreeHelper::NoiseTreeHelper: eMinTS_(3U), eMaxTS_(8U)
InitialEMinTS == 3
InitialEMaxTS == 8

\* SelectGoodChannelsOptions(): minResponseTS(3), maxResponseTS(8)
DefaultMinResponseTS == 3
DefaultMaxResponseTS == 8

\* the upper limits parse passes to validateRangeLELT
MinResponseTSLimit == 9
MaxResponseTSLimit == 10

\* bounds: the pulses of an entry and the entries of the tree
MaxPulses == 2
MaxEvents == 2

TimeSlices == 0..(N_TIME_SLICES - 1)

\* SelectGoodChannelsOptions(): the constructor gives storeSelectedOnly no
\* value, so the member holds either value until parse assigns it
DefaultOptions ==
    { [ storeSelectedOnly |-> b,
        channelSelector |-> "FFTJetChannelSelector",
        minResponseTS |-> DefaultMinResponseTS,
        maxResponseTS |-> DefaultMaxResponseTS ] : b \in BOOLEAN }

\* the command line: each option is absent (the empty sequence) or given
\* with a value
MinResponseTSArgs == { << >>, << 0 >>, << 9 >> }
MaxResponseTSArgs == { << >>, << 3 >>, << 10 >>, << 11 >> }
ChannelSelectorArgs ==
    { << >>, << "AllChannelSelector" >>, << "NoSuchSelector" >> }

\* cmdline.has(NULL, "--storeSelectedOnly"): the switch is given or not
StoreSelectedOnlyArgs == BOOLEAN

\* cmdline.option(...) >> field: the field keeps its value if the option
\* is absent
optionValue(arg, field) == IF arg = << >> THEN field ELSE arg[1]

\* validateRangeLELT(value, name, lo, hi): lo <= value < hi, or
\* std::invalid_argument
validateRangeLELT(value, lo, hi) == lo <= value /\ value < hi

\* SelectGoodChannelsOptions::parse
Parse ==
    /\ anaPc = "start"
    /\ \E minArg \in MinResponseTSArgs, maxArg \in MaxResponseTSArgs,
          selArg \in ChannelSelectorArgs, has \in StoreSelectedOnlyArgs :
         LET opts ==
               [ storeSelectedOnly |-> has,
                 channelSelector |->
                     optionValue(selArg, options.channelSelector),
                 minResponseTS |-> optionValue(minArg, options.minResponseTS),
                 maxResponseTS |-> optionValue(maxArg, options.maxResponseTS) ]
             valid ==
               /\ validateRangeLELT(opts.minResponseTS, 0, MinResponseTSLimit)
               /\ validateRangeLELT(opts.maxResponseTS,
                                    opts.minResponseTS + 1,
                                    MaxResponseTSLimit)
         IN /\ options' = opts
            /\ anaPc' = IF valid THEN "parsed" ELSE "failed"
            /\ error' = IF valid THEN NoError
                        ELSE << "invalid_argument", "validateRangeLELT" >>
    /\ UNCHANGED << channelSelector_, eMinTS_, eMaxTS_, entry, eventCounter_,
                    channelCounter_, channelNumber_, channelCharge_,
                    helperRet, ChannelQNtuple >>
    /\ UNCHANGED << ctorVars, mapVars, cacheVars, ret, selVars, threadVars,
                    txtVars, geoVars, fnVars >>

\* NoiseTreeHelper::setEMinMaxTS: whether the two assertions hold
setEMinMaxTS(tsMin, tsMax) == tsMin < tsMax /\ tsMax <= N_TIME_SLICES

\* Fault variant of selectorFor: the final else branch is missing, and an
\* unknown name leaves channelSelector_ null.
selectorForNoElse(name) ==
    IF name = "FFTJetChannelSelector" THEN "FFTJetChannelSelector"
    ELSE IF name = "AllChannelSelector" THEN "AllChannelSelector"
    ELSE "null"

\* the selector the constructor installs for opts.channelSelector, or
\* "unsupported" where it throws
selectorFor(name) ==
    IF name = "FFTJetChannelSelector" THEN "FFTJetChannelSelector"
    ELSE IF name = "AllChannelSelector" THEN "AllChannelSelector"
    ELSE "unsupported"

\* the outcomes of HBHEChannelGeometry(hbFile, heFile): the files load, a
\* file cannot be opened or parsed, or a channel is left without direction
GeometryOutcomes ==
    { NoError,
      << "invalid_argument", "HBHEChannelGeometry::loadData" >>,
      << "runtime_error", "HBHEChannelGeometry" >> }

\* channelSelectionMask_(HBHEChannelMap::ChannelCount, 1U)
InitialMask == [i \in 1..ChannelCount |-> 1]

\* SelectGoodChannels::SelectGoodChannels: the member initialisers, the
\* choice of the selector, and the call of setEMinMaxTS
ConstructAnalysis ==
    /\ anaPc = "parsed"
    /\ \E geometry \in GeometryOutcomes :
       \E sel \in { selectorFor(options.channelSelector) } :
         IF geometry # NoError
         THEN /\ anaPc' = "failed"
              /\ error' = geometry
              /\ UNCHANGED << channelSelector_, eMinTS_, eMaxTS_, mask >>
         ELSE IF sel = "unsupported"
         THEN /\ anaPc' = "failed"
              /\ error' = << "invalid_argument", "SelectGoodChannels" >>
              /\ UNCHANGED << channelSelector_, eMinTS_, eMaxTS_, mask >>
         ELSE IF ~setEMinMaxTS(options.minResponseTS, options.maxResponseTS)
         THEN /\ anaPc' = "aborted"
              /\ error' = << "assert_failed", "setEMinMaxTS" >>
              /\ channelSelector_' = sel
              /\ mask' = InitialMask
              /\ UNCHANGED << eMinTS_, eMaxTS_ >>
         ELSE /\ anaPc' = "running"
              /\ error' = NoError
              /\ channelSelector_' = sel
              /\ mask' = InitialMask
              /\ eMinTS_' = options.minResponseTS
              /\ eMaxTS_' = options.maxResponseTS
    /\ UNCHANGED << options, entry, eventCounter_, channelCounter_,
                    channelNumber_, channelCharge_, helperRet,
                    ChannelQNtuple >>
    /\ UNCHANGED << selPc, event, closestJet, jetChannels_, budgetDiscarded,
                    associatedJetPt >>
    /\ UNCHANGED << ctorVars, mapVars, cacheVars, ret, threadVars, txtVars,
                    geoVars, fnVars >>

\* the pulses an entry is made of: the channel of the pulse and its
\* charge, pedestal and gain in each time slice; the last one names a
\* channel that is not enumerated
PulseChoices ==
    { [ Depth |-> 1, IEta |-> 1, IPhi |-> 1,
        Charge |-> [t \in TimeSlices |-> t + 1],
        Pedestal |-> [t \in TimeSlices |-> 1],
        Gain |-> [t \in TimeSlices |-> 2] ],
      [ Depth |-> 2, IEta |-> 16, IPhi |-> 72,
        Charge |-> [t \in TimeSlices |-> (t * t) % 7],
        Pedestal |-> [t \in TimeSlices |-> t % 2],
        Gain |-> [t \in TimeSlices |-> 1 + (t % 3)] ],
      [ Depth |-> 3, IEta |-> 1, IPhi |-> 1,
        Charge |-> [t \in TimeSlices |-> 9 - t],
        Pedestal |-> [t \in TimeSlices |-> 0],
        Gain |-> [t \in TimeSlices |-> 1] ] }

\* the jets the clustering engine finds in an entry
EntryJets == { << >>, << [pt |-> jetPtCutoff, et |-> 100] >> }

\* the distance of a pulse's channel to a jet: inside or outside the cone
EntryDistances == { 0, coneSize + 1 }

\* the entries of the tree: a channel occurs at most once in an entry
EntriesOf(n) ==
    { [ PulseCount |-> n, pulses |-> x[1], jets |-> x[2], distance |-> x[3] ] :
        x \in { y \in [1..n -> PulseChoices] \X EntryJets
                        \X [1..n -> UNION { [1..Len(js) -> EntryDistances] :
                                              js \in EntryJets }] :
                   /\ \A i \in 1..n, k \in 1..n :
                         y[1][i] = y[1][k] => i = k
                   /\ \A i \in 1..n :
                         DOMAIN y[3][i] = 1..Len(y[2]) } }

Entries == UNION { EntriesOf(n) : n \in 0..MaxPulses }

\* the position of an enumerated triple in lookup_, as channelMap_ gives it
enumerationIndex(id) ==
    (CHOOSE k \in 1..Len(CtorWrites) : CtorWrites[k] = id) - 1

\* the loop of NoiseTreeHelper::energy from time slice i on: the sum and
\* the time slices read
RECURSIVE energyFrom(_, _, _, _)
energyFrom(pulse, i, hi, acc) ==
    IF i < hi
    THEN energyFrom(pulse, i + 1, hi,
            [ e |-> acc.e + (pulse.Charge[i] - pulse.Pedestal[i])
                               * pulse.Gain[i],
              read |-> acc.read \cup { i } ])
    ELSE acc

\* Fault variant of energy: the loop starts one time slice late.
energySkipFirst(idx) ==
    energyFrom(entry.pulses[idx + 1], eMinTS_ + 1, eMaxTS_,
               [e |-> 0, read |-> {}])

\* NoiseTreeHelper::energy(idx), for idx < PulseCount
energy(idx) ==
    energyFrom(entry.pulses[idx + 1], eMinTS_, eMaxTS_,
               [e |-> 0, read |-> {}])

\* std::accumulate(charge + minResponseTS, charge + maxResponseTS, 0.0)
RECURSIVE accumulate(_, _, _, _)
accumulate(charge, first, last, init) ==
    IF first < last
    THEN accumulate(charge, first + 1, last, init + charge[first])
    ELSE init

\* the object can be called
AnalysisUp == anaPc \in { "running", "loaded" }

\* RootChainProcessor: the next entry of the tree is loaded
GetEntry ==
    /\ anaPc = "running"
    /\ eventCounter_ < MaxEvents
    /\ entry' \in Entries
    /\ anaPc' = "loaded"
    /\ UNCHANGED << error, options, channelSelector_, eMinTS_, eMaxTS_,
                    eventCounter_, channelCounter_, channelNumber_,
                    channelCharge_, helperRet, ChannelQNtuple >>
    /\ UNCHANGED << ctorVars, mapVars, cacheVars, ret, selVars, threadVars,
                    txtVars, geoVars, fnVars >>

\* channelNumber_ and channelCharge_ after the pulses 1..k have been gone
\* through
writtenUpTo(array, written) ==
    [i \in DOMAIN written \cup DOMAIN array |->
        IF i \in DOMAIN written THEN written[i] ELSE array[i]]

\* Fault variant of CheckMask: the filter passes every channel.
CheckMaskAlways(arr, enabled, i) == TRUE

\* CheckMask::operator()(i): the filter of the channel ntuple
CheckMask(arr, enabled, i) ==
    IF enabled THEN arr[i + 1] # 0 ELSE TRUE

\* manager_.CycleFill(PulseCount, "HBHE", false) for the channel ntuple:
\* the cycle index i goes from 0 to PulseCount - 1, and the row of i is
\* filled if the filter passes i
RECURSIVE CycleFill(_, _, _, _, _)
CycleFill(ntuple, rows, arr, enabled, i) ==
    IF i >= Len(rows) THEN ntuple
    ELSE CycleFill(IF CheckMask(arr, enabled, i)
                   THEN Append(ntuple, rows[i + 1])
                   ELSE ntuple,
                   rows, arr, enabled, i + 1)

\* Fault variant of eventOutcome: the exception of linearIndex is caught
\* and the event goes on.
eventOutcomeSwallowed(bad, selector) ==
    IF selector = "null" THEN "aborted" ELSE "running"

\* how event() ends: linearIndex throws at a pulse ("failed"), the
\* assertion of a selector fails ("aborted"), or it returns 0 ("running")
eventOutcome(bad, selector) ==
    IF bad # {} THEN "failed"
    ELSE IF selector = "null" THEN "aborted"
    ELSE "running"

\* SelectGoodChannels::event
Event ==
    /\ anaPc = "loaded"
    /\ LET n == entry.PulseCount
           id(i) == HBHEChannelId(entry.pulses[i].Depth,
                                  entry.pulses[i].IEta,
                                  entry.pulses[i].IPhi)
           bad == { i \in 1..n : id(i) \notin EnumeratedTriples }
           done == IF bad = {} THEN n
                   ELSE (CHOOSE i \in bad : \A k \in bad : i <= k) - 1
           number(i) == IF i \in bad THEN ChannelCount
                        ELSE enumerationIndex(id(i))
           charge(i) == accumulate(entry.pulses[i].Charge,
                                   options.minResponseTS,
                                   options.maxResponseTS, 0)
           channels == [i \in 1..n |->
                           [ energy |-> energy(i - 1).e,
                             distance |-> entry.distance[i] ]]
           outcome == eventOutcome(bad, channelSelector_)
           rows(m) == [i \in 1..n |->
                          [ event |-> eventCounter_,
                            cycle |-> i - 1,
                            ChannelNumber |-> number(i),
                            selected |-> m[i] ]]
       IN /\ channelNumber_' =
                writtenUpTo(channelNumber_, [i \in 1..done |-> number(i)])
          /\ channelCharge_' =
                writtenUpTo(channelCharge_, [i \in 1..done |-> charge(i)])
          /\ anaPc' = outcome
          /\ IF outcome = "failed"
             THEN /\ error' = << "invalid_argument",
                                 "HBHEChannelMap::linearIndex" >>
                  /\ UNCHANGED << selVars, eventCounter_, channelCounter_,
                                  ChannelQNtuple >>
             ELSE IF outcome = "aborted"
             THEN /\ error' = << "assert_failed", "event" >>
                  /\ UNCHANGED << selVars, eventCounter_, channelCounter_,
                                  ChannelQNtuple >>
             ELSE /\ error' = NoError
                  /\ eventCounter_' = eventCounter_ + 1
                  /\ channelCounter_' = channelCounter_ + n
                  /\ IF channelSelector_ = "FFTJetChannelSelector"
                     THEN \E out \in { select(entry.jets, channels) } :
                            /\ selPc' = "selected"
                            /\ event' = [ jets |-> entry.jets,
                                          channels |-> channels ]
                            /\ closestJet' = out.closestJet
                            /\ jetChannels_' = out.jetChannels_
                            /\ budgetDiscarded' = out.budgetDiscarded
                            /\ mask' = out.mask
                            /\ associatedJetPt' = out.associatedJetPt
                     ELSE /\ mask' = [i \in 1..n |-> 1]
                          /\ associatedJetPt' = [i \in 1..n |-> 0]
                          /\ UNCHANGED << selPc, event, closestJet,
                                          jetChannels_, budgetDiscarded >>
                  /\ ChannelQNtuple' =
                        CycleFill(ChannelQNtuple, rows(mask'), mask',
                                  options.storeSelectedOnly, 0)
    /\ UNCHANGED << options, channelSelector_, eMinTS_, eMaxTS_, entry,
                    helperRet >>
    /\ UNCHANGED << ctorVars, mapVars, cacheVars, ret, threadVars, txtVars,
                    geoVars, fnVars >>

\* the arguments of energy and of setEMinMaxTS
EnergyIndices == 0..MaxPulses
MinTSArgs == { 0, 3, 10 }
MaxTSArgs == { 0, 10, 11 }

\* NoiseTreeHelper::energy
Energy ==
    /\ AnalysisUp
    /\ \E idx \in EnergyIndices :
         IF idx < entry.PulseCount
         THEN /\ helperRet' = [ op |-> "energy", arg |-> idx,
                                status |-> "ok", val |-> energy(idx).e,
                                read |-> energy(idx).read ]
              /\ UNCHANGED << anaPc, error >>
         ELSE /\ helperRet' = [ op |-> "energy", arg |-> idx,
                                status |-> "assert_failed", val |-> 0,
                                read |-> {} ]
              /\ anaPc' = "aborted"
              /\ error' = << "assert_failed", "energy" >>
    /\ UNCHANGED << options, channelSelector_, eMinTS_, eMaxTS_, entry,
                    eventCounter_, channelCounter_, channelNumber_,
                    channelCharge_, ChannelQNtuple >>
    /\ UNCHANGED << ctorVars, mapVars, cacheVars, ret, selVars, threadVars,
                    txtVars, geoVars, fnVars >>

\* NoiseTreeHelper::setEMinMaxTS, called on the object
SetEMinMaxTS ==
    /\ AnalysisUp
    /\ \E tsMin \in MinTSArgs, tsMax \in MaxTSArgs :
         IF setEMinMaxTS(tsMin, tsMax)
         THEN /\ eMinTS_' = tsMin
              /\ eMaxTS_' = tsMax
              /\ helperRet' = [ op |-> "setEMinMaxTS",
                                arg |-> << tsMin, tsMax >>,
                                status |-> "ok", val |-> 0, read |-> {} ]
              /\ UNCHANGED << anaPc, error >>
         ELSE /\ helperRet' = [ op |-> "setEMinMaxTS",
                                arg |-> << tsMin, tsMax >>,
                                status |-> "assert_failed", val |-> 0,
                                read |-> {} ]
              /\ anaPc' = "aborted"
              /\ error' = << "assert_failed", "setEMinMaxTS" >>
              /\ UNCHANGED << eMinTS_, eMaxTS_ >>
    /\ UNCHANGED << options, channelSelector_, entry, eventCounter_,
                    channelCounter_, channelNumber_, channelCharge_,
                    ChannelQNtuple >>
    /\ UNCHANGED << ctorVars, mapVars, cacheVars, ret, selVars, threadVars,
                    txtVars, geoVars, fnVars >>

AnaInit ==
    /\ MapAbsent
    /\ TextAbsent
    /\ GeometryAbsent
    /\ FunctorsAbsent
    /\ SelectorIdle
    /\ ThreadsIdle
    /\ anaPc = "start"
    /\ error = NoError
    /\ options \in DefaultOptions
    /\ channelSelector_ = "null"
    /\ eMinTS_ = InitialEMinTS
    /\ eMaxTS_ = InitialEMaxTS
    /\ entry = NoEntry
    /\ eventCounter_ = 0
    /\ channelCounter_ = 0
    /\ channelNumber_ = << >>
    /\ channelCharge_ = << >>
    /\ helperRet = NoHelperCall
    /\ ChannelQNtuple = << >>

AnaNext ==
    \/ Parse
    \/ ConstructAnalysis
    \/ GetEntry
    \/ Event
    \/ Energy
    \/ SetEMinMaxTS

AnaSpec == AnaInit /\ [][AnaNext]_vars

(***************************************************************************)
(* fillTuplesFromText<Tuple> on a text stream, for the Tuple of            *)
(* HBHEChannelGeometry::loadData: six numbers.  A line is the sequence of  *)
(* its characters; the numbers of a row are decimal integers.  The stream  *)
(* has no read error.                                                      *)
(***************************************************************************)

\* std::tuple_size<Tuple>::value for std::tuple<int, int, int, double,
\* double, double>
TupleSize == 6

\* bound: the lines of a text
MaxLines == 3

\* the lines a text is made of
TextLines ==
    { << "1", " ", "2", " ", "3", " ", "4", " ", "5", " ", "6" >>,
      << "1", ",", "2", ",", "3", ",", "4", ",", "5", ",", "6" >>,
      << "-", "1", ",", " ", "1", "2", ",", " ", "3", ",", " ", "4", ",",
         " ", "5", ",", " ", "6" >>,
      << " ", "-", "1", "6", "\t", "7", "2", " ", "3", " ", " ", "0", " ",
         "0", " ", "1", " ", "7" >>,
      << >>,
      << " ", "\t" >>,
      << " ", "#", " ", "1", " ", "2" >>,
      << "1", " ", "2", " ", "3" >>,
      << "1", " ", "2", " ", "x", " ", "4", " ", "5", " ", "6" >> }

Texts == UNION { [1..n -> TextLines] : n \in 0..MaxLines }

\* isspace(c)
isspace(c) == c \in { " ", "\t" }

\* the value of a decimal digit, or -1 for another character
digitValue(c) ==
    CASE c = "0" -> 0 [] c = "1" -> 1 [] c = "2" -> 2 [] c = "3" -> 3
      [] c = "4" -> 4 [] c = "5" -> 5 [] c = "6" -> 6 [] c = "7" -> 7
      [] c = "8" -> 8 [] c = "9" -> 9 [] OTHER -> -1

\* "if (hasCommasBetweenValues) if (line[i] == ',') line[i] = ' ';" for
\* every character the loop over the line reaches
commasToSpaces(line, commas) ==
    [i \in DOMAIN line |-> IF commas /\ line[i] = "," THEN " " ELSE line[i]]

\* the loop over the characters of the line from position i on: the line
\* is a comment, all white space, or data
RECURSIVE classifyLine(_, _, _)
classifyLine(line, commas, i) ==
    IF i > Len(line) THEN "allSpace"
    ELSE IF isspace(commasToSpaces(line, commas)[i])
    THEN classifyLine(line, commas, i + 1)
    ELSE IF line[i] = "#" THEN "isComment"
    ELSE "data"

\* the digits of a number from position i on: the value read so far and
\* the position after the last digit
RECURSIVE readDigits(_, _, _)
readDigits(line, i, acc) ==
    IF i <= Len(line) /\ digitValue(line[i]) >= 0
    THEN readDigits(line, i + 1, 10 * acc + digitValue(line[i]))
    ELSE [val |-> acc, pos |-> i]

RECURSIVE skipSpace(_, _)
skipSpace(line, i) ==
    IF i <= Len(line) /\ isspace(line[i]) THEN skipSpace(line, i + 1) ELSE i

\* "asciiStream >> std::get<N-1>(*t)": white space is skipped, then a sign
\* and digits are read; the extraction fails if there is no digit
extract(line, i) ==
    LET start == skipSpace(line, i)
        neg == start <= Len(line) /\ line[start] = "-"
        first == IF neg THEN start + 1 ELSE start
        num == readDigits(line, first, 0)
    IN IF num.pos = first
       THEN [fail |-> TRUE, val |-> 0, pos |-> first]
       ELSE [fail |-> FALSE,
             val |-> IF neg THEN 0 - num.val ELSE num.val,
             pos |-> num.pos]

\* Private::TupleFillCycler<Tuple, N>::read: the first N elements of the
\* tuple, read one after the other as long as no extraction has failed
RECURSIVE TupleFillCycler(_, _)
TupleFillCycler(line, N) ==
    IF N = 0 THEN [status |-> TRUE, buf |-> << >>, pos |-> 1]
    ELSE LET before == TupleFillCycler(line, N - 1)
             x == extract(line, before.pos)
         IN IF before.status
            THEN [status |-> ~x.fail,
                  buf |-> IF x.fail THEN before.buf
                          ELSE Append(before.buf, x.val),
                  pos |-> x.pos]
            ELSE before

\* Fault variant of lineOutcome: a comment is recognised in the first
\* column only.
lineOutcomeNoIndentedComment(linebuf, commas) ==
    LET line == commasToSpaces(linebuf, commas)
        read == TupleFillCycler(line, TupleSize)
    IN IF Len(linebuf) = 0 THEN [skip |-> TRUE]
       ELSE IF linebuf[1] = "#" \/ classifyLine(linebuf, commas, 1) = "allSpace"
       THEN [skip |-> TRUE]
       ELSE [skip |-> FALSE, status |-> read.status, buf |-> read.buf]

\* one pass of the while loop on the line linebuf: the line is skipped, or
\* it is parsed into the buffer
lineOutcome(linebuf, commas) ==
    LET line == commasToSpaces(linebuf, commas)
        read == TupleFillCycler(line, TupleSize)
    IN IF Len(linebuf) = 0 THEN [skip |-> TRUE]
       ELSE IF classifyLine(linebuf, commas, 1) # "data" THEN [skip |-> TRUE]
       ELSE [skip |-> FALSE, status |-> read.status, buf |-> read.buf]

TextFrame ==
    UNCHANGED << ctorVars, mapVars, cacheVars, ret, selVars, threadVars,
                 anaVars, geoVars, fnVars >>

\* one pass of "while (asciiStream && status && nfilled<maxElementsToFill)"
\* with a line left in the stream
GetLine ==
    /\ txtPc = "reading"
    /\ status
    /\ asciiStream # << >>
    /\ LET out == lineOutcome(Head(asciiStream), hasCommasBetweenValues)
       IN /\ asciiStream' = Tail(asciiStream)
          /\ IF out.skip
             THEN UNCHANGED << status, tofill >>
             ELSE /\ status' = out.status
                  /\ tofill' = IF out.status THEN Append(tofill, out.buf)
                               ELSE tofill
    /\ UNCHANGED << txtPc, textFile, hasCommasBetweenValues >>
    /\ TextFrame

\* the loop ends: std::getline meets the end of the stream, or status is
\* false; fillTuplesFromText returns status
ReturnStatus ==
    /\ txtPc = "reading"
    /\ ~status \/ asciiStream = << >>
    /\ txtPc' = "returned"
    /\ UNCHANGED << textFile, asciiStream, hasCommasBetweenValues, tofill,
                    status >>
    /\ TextFrame

\* fillTuplesFromText(is, &nt) as loadData calls it, with
\* hasCommasBetweenValues left at its default, or a call with the argument
\* given as true
TextInit ==
    /\ MapAbsent
    /\ SelectorIdle
    /\ ThreadsIdle
    /\ AnalysisAbsent
    /\ GeometryAbsent
    /\ FunctorsAbsent
    /\ txtPc = "reading"
    /\ textFile \in Texts
    /\ asciiStream = textFile
    /\ hasCommasBetweenValues \in BOOLEAN
    /\ tofill = << >>
    /\ status = TRUE

TextNext ==
    \/ GetLine
    \/ ReturnStatus

TextSpec == TextInit /\ [][TextNext]_vars

(***************************************************************************)
(* HBHEChannelGeometry::HBHEChannelGeometry(hbFile, heFile).  A geometry   *)
(* file is given by whether it can be opened, whether fillTuplesFromText   *)
(* parses it, and its rows (ieta, iphi, depth, x, y, z): a block with one  *)
(* row for each channel of a subdetector, in the order of the enumeration, *)
(* from which some rows may be left out, followed by the rows of tail.     *)
(* The coordinates are integers, and a direction is held as the shortest   *)
(* integer vector along it.                                                *)
(***************************************************************************)

\* TVector3(): the null vector
ZeroVector == << 0, 0, 0 >>

RECURSIVE GCD(_, _)
GCD(a, b) == IF b = 0 THEN a ELSE GCD(b, a % b)

\* TVector3::Unit(): the vector scaled to unit length; the null vector is
\* returned as it is
Unit(v) ==
    IF v = ZeroVector THEN ZeroVector
    ELSE LET g == GCD(Abs(v[1]), GCD(Abs(v[2]), Abs(v[3])))
         IN << v[1] \div g, v[2] \div g, v[3] \div g >>

\* the coordinates the block of a file gives for channel i
BlockVector(i) ==
    << 2 * lookup_[i].ieta, 2 * lookup_[i].iphi, 2 * lookup_[i].depth >>

\* the channel for which rows are left out of or added to the files
ProbeChannel == HBHEChannelId(1, 1, 1)

\* the rows a tail is made of: the probe channel with a vector that is not
\* the one of the block, the probe channel with the null vector, a triple
\* that is not enumerated, and an endcap channel
TailRows ==
    [ other |-> << 1, 1, 1, 0, 0, 5 >>,
      null |-> << 1, 1, 1, 0, 0, 0 >>,
      invalid |-> << 0, 1, 1, 3, 4, 0 >>,
      endcap |-> << 17, 1, 1, 0, 7, 0 >> ]

HBTails ==
    { << >>, << TailRows.other >>, << TailRows.null >>,
      << TailRows.invalid >>, << TailRows.other, TailRows.null >>,
      << TailRows.null, TailRows.other >> }

HETails ==
    { << >>, << TailRows.other >>, << TailRows.null >>,
      << TailRows.endcap >> }

\* the geometry files of a subdetector
GeometryFiles(sub, tails) ==
    [ opens : BOOLEAN, parses : BOOLEAN, subdetector : { sub },
      omitted : { {}, { ProbeChannel } }, tail : tails ]

\* the block of the file has a row for channel i
InBlock(file, i) ==
    /\ getSubdetector(lookup_[i].depth, lookup_[i].ieta) = file.subdetector
    /\ lookup_[i] \notin file.omitted

\* Fault variant of storeDirection: a direction already stored is kept.
storeDirectionKeepFirst(dirs, idx, vec) ==
    IF dirs[idx] # ZeroVector THEN dirs
    ELSE [dirs EXCEPT ![idx] = Unit(vec)]

\* "directions_.at(idx) = vec.Unit();"
storeDirection(dirs, idx, vec) == [dirs EXCEPT ![idx] = Unit(vec)]

\* the rows of a block name different channels, all of them enumerated:
\* the loop over them stores the direction of each
loadBlock(dirs, file) ==
    [i \in DOMAIN dirs |->
        IF InBlock(file, i) THEN storeDirection(dirs, i, BlockVector(i))[i]
        ELSE dirs[i]]

\* "for (unsigned row=0; row<nrows; ++row)" over the rows of the tail;
\* linearIndex throws at a triple that is not enumerated
RECURSIVE loadRows(_, _, _)
loadRows(dirs, nt, row) ==
    IF row > Len(nt) THEN [error |-> NoError, directions_ |-> dirs]
    ELSE LET t == nt[row]
             idx == linearIndex(t[3], t[1], t[2])
         IN IF idx.status # "ok"
            THEN [error |-> << "invalid_argument",
                               "HBHEChannelMap::linearIndex" >>,
                  directions_ |-> dirs]
            ELSE loadRows(storeDirection(dirs, idx.val, << t[4], t[5], t[6] >>),
                          nt, row + 1)

\* HBHEChannelGeometry::loadData
loadData(file, dirs) ==
    IF ~file.opens \/ ~file.parses
    THEN [error |-> << "invalid_argument", "HBHEChannelGeometry::loadData" >>,
          directions_ |-> dirs]
    ELSE loadRows(loadBlock(dirs, file), file.tail, 1)

\* Fault variant of missingDirections: the null vector counts as data.
missingDirectionsNone(dirs) == {}

\* "if (directions_[i] == zero)": the channels the check finds without data
missingDirections(dirs) == { i \in DOMAIN dirs : dirs[i] = ZeroVector }

GeoFrame ==
    UNCHANGED << ctorVars, mapVars, cacheVars, ret, selVars, threadVars,
                 anaVars, txtVars, fnVars >>

\* "loadData(hbFile, chmap);"
LoadHB ==
    /\ geoPc = "start"
    /\ \E out \in { loadData(hbFile, directions_) } :
         /\ directions_' = out.directions_
         /\ geoError' = out.error
         /\ geoPc' = IF out.error = NoError THEN "hb_loaded" ELSE "failed"
    /\ UNCHANGED << hbFile, heFile >>
    /\ GeoFrame

\* "loadData(heFile, chmap);"
LoadHE ==
    /\ geoPc = "hb_loaded"
    /\ \E out \in { loadData(heFile, directions_) } :
         /\ directions_' = out.directions_
         /\ geoError' = out.error
         /\ geoPc' = IF out.error = NoError THEN "he_loaded" ELSE "failed"
    /\ UNCHANGED << hbFile, heFile >>
    /\ GeoFrame

\* the loop that checks that there are directions for all channels
CheckDirections ==
    /\ geoPc = "he_loaded"
    /\ IF missingDirections(directions_) # {}
       THEN /\ geoPc' = "failed"
            /\ geoError' = << "runtime_error", "HBHEChannelGeometry" >>
       ELSE /\ geoPc' = "constructed"
            /\ UNCHANGED geoError
    /\ UNCHANGED << hbFile, heFile, directions_ >>
    /\ GeoFrame

\* the constructor is entered: directions_(ChannelCount) holds null
\* vectors and the local channel map chmap is constructed
GeoInit ==
    /\ \E built \in { Construct(1) } :
        /\ pc = IF built.failed THEN "abort" ELSE "ready"
        /\ l = built.l
        /\ overflow = built.overflow
        /\ hpdMap = 1
        /\ lookup_ = built.lookup_
        /\ inverse_ = built.inverse_
        /\ hpd_lookup_ = built.hpd_lookup_
        /\ chan_in_hpd_lookup_ = built.chan_in_hpd_lookup_
        /\ hpd_channel_lookup_ = built.hpd_channel_lookup_
        /\ rbx_lookup_ = built.rbx_lookup_
        /\ chan_in_rbx_lookup_ = built.chan_in_rbx_lookup_
        /\ rbx_channel_lookup_ = built.rbx_channel_lookup_
    /\ neighborInfoFilled_ = FALSE
    /\ hpdNeighborsFilled_ = FALSE
    /\ channel_neighbors_ = [i \in 0..(ChannelCount - 1) |-> << >>]
    /\ hpd_neighbors_ = [h \in 0..(NUM_HPDS - 1) |-> << >>]
    /\ ret = NoCall
    /\ SelectorIdle
    /\ ThreadsIdle
    /\ AnalysisAbsent
    /\ TextAbsent
    /\ FunctorsAbsent
    /\ geoPc = "start"
    /\ hbFile \in GeometryFiles("HcalBarrel", HBTails)
    /\ heFile \in GeometryFiles("HcalEndcap", HETails)
    /\ directions_ = [i \in 0..(ChannelCount - 1) |-> ZeroVector]
    /\ geoError = NoError

GeoNext ==
    \/ LoadHB
    \/ LoadHE
    \/ CheckDirections

GeoSpec == GeoInit /\ [][GeoNext]_vars

(***************************************************************************)
(* The logical functors Not, And and Or of Functors.h.  An operand functor *)
(* is given by the value it returns in the call without argument and by    *)
(* the values it returns for the cycle indices; a value is converted to    *)
(* bool where an operator needs one.                                       *)
(***************************************************************************)

\* bound: the cycle indices 0 .. MaxCycle - 1
MaxCycle == 2

\* the values an operand functor returns
FunctorValues == { 0, 1, 2 }

OperandFunctors ==
    [ value : FunctorValues, element : [1..MaxCycle -> FunctorValues] ]

\* the cycle index of a call; NoIndex is the call without argument
NoIndex == -1
CallIndices == { NoIndex } \cup (0..(MaxCycle - 1))

\* f_() or f_(i)
callFunctor(f, i) == IF i = NoIndex THEN f.value ELSE f.element[i + 1]

\* the conversion of a value to bool
toBool(v) == v # 0

\* NotHlp::operator(): "!(f_())", "!(f_(i))"
NotHlp(f, i) == ~toBool(callFunctor(f, i))

\* AndHlp::operator(): "f1_() && f2_()", "f1_(i) && f2_(i)"
AndHlp(f1, f2, i) ==
    IF toBool(callFunctor(f1, i)) THEN toBool(callFunctor(f2, i)) ELSE FALSE

\* OrHlp::operator(): "f1_() && f2_()", "f1_(i) && f2_(i)"
OrHlp(f1, f2, i) ==
    IF toBool(callFunctor(f1, i)) THEN toBool(callFunctor(f2, i)) ELSE FALSE

FunctorFrame ==
    UNCHANGED << ctorVars, mapVars, cacheVars, ret, selVars, threadVars,
                 anaVars, txtVars, geoVars, f1_, f2_ >>

\* a call of Not(f1_)
CallNot ==
    /\ \E i \in CallIndices :
         fnRet' = [op |-> "Not", arg |-> i, val |-> NotHlp(f1_, i)]
    /\ FunctorFrame

\* a call of And(f1_, f2_)
CallAnd ==
    /\ \E i \in CallIndices :
         fnRet' = [op |-> "And", arg |-> i, val |-> AndHlp(f1_, f2_, i)]
    /\ FunctorFrame

\* a call of Or(f1_, f2_)
CallOr ==
    /\ \E i \in CallIndices :
         fnRet' = [op |-> "Or", arg |-> i, val |-> OrHlp(f1_, f2_, i)]
    /\ FunctorFrame

\* Not(f1), And(f1, f2) and Or(f1, f2) have been made from the operand
\* functors, which the helpers hold as copies
FunctorInit ==
    /\ MapAbsent
    /\ SelectorIdle
    /\ ThreadsIdle
    /\ AnalysisAbsent
    /\ TextAbsent
    /\ GeometryAbsent
    /\ f1_ \in OperandFunctors
    /\ f2_ \in OperandFunctors
    /\ fnRet = NoCall

FunctorNext ==
    \/ CallNot
    \/ CallAnd
    \/ CallOr

FunctorSpec == FunctorInit /\ [][FunctorNext]_vars

(***************************************************************************)
(* Properties of the channel map                                           *)
(***************************************************************************)

\* names of the accessors keyed by a linear channel index
IndexAccessors ==
    { "getChannelTriple", "getHPD", "getChannelInHPD", "getRBX",
      "getChannelInRBX", "channelNeigborsFromOtherHPDs" }

\* C1: linearIndex and getChannelTriple are mutually inverse on the
\* enumerated set: every triple the constructor writes is mapped by
\* linearIndex to an index at which getChannelTriple returns that triple,
\* and for every index i < ChannelCount linearIndex of getChannelTriple(i)
\* is i (no triple is enumerated twice).  The same holds of the result of
\* every successful linearIndex call.
C1_RoundTrip ==
    /\ Idle =>
         /\ \A k \in 1..Len(CtorWrites) :
               LET t == CtorWrites[k]
                   idx == linearIndex(t.depth, t.ieta, t.iphi)
               IN /\ idx.status = "ok"
                  /\ getChannelTriple(idx.val) = Ok(t)
         /\ \A i \in 0..(ChannelCount - 1) :
               LET t == getChannelTriple(i)
               IN /\ t.status = "ok"
                  /\ linearIndex(t.val.depth, t.val.ieta, t.val.iphi) = Ok(i)
    /\ (pc = "ready" /\ ret.op = "linearIndex" /\ ret.status = "ok") =>
         getChannelTriple(ret.val) = Ok(ret.arg)

\* C1 witness: linearIndex has returned the index of (3, 16, 72) and
\* getChannelTriple at that index gives the triple back
C1_Witness ==
    /\ pc = "ready"
    /\ ret.op = "linearIndex"
    /\ ret.status = "ok"
    /\ ret.arg = HBHEChannelId(3, 16, 72)
    /\ getChannelTriple(ret.val) = Ok(ret.arg)

\* triples one ring, one depth and one azimuthal bin beyond the detector
ProbeTriples ==
    { HBHEChannelId(d, e, p) :
        d \in 0..(MaxDepth + 1),
        e \in (-(MaxAbsEta + 1))..(MaxAbsEta + 1),
        p \in 0..(NPhi + 1) }

\* C2, on a state: linearIndex of a triple that is not enumerated throws
\* std::invalid_argument and returns no index, and isValidTriple is false
\* for exactly the triples that are not enumerated
C2_Rejects ==
    /\ Idle =>
         \A t \in ProbeTriples :
            IF t \in EnumeratedTriples
            THEN isValidTriple(t.depth, t.ieta, t.iphi)
            ELSE /\ ~isValidTriple(t.depth, t.ieta, t.iphi)
                 /\ linearIndex(t.depth, t.ieta, t.iphi)
                        = Thrown("invalid_argument", NotFound)
    /\ (pc = "ready" /\ ret.op = "linearIndex"
            /\ ret.arg \notin EnumeratedTriples) =>
         (ret.status = "invalid_argument" /\ ret.val = NotFound)
    /\ (pc = "ready" /\ ret.op = "isValidTriple") =>
         (ret.val <=> ret.arg \in EnumeratedTriples)

\* C2, on a step: a linearIndex call that fails leaves the forward map, the
\* inverse map, the module tables and the caches as they were
C2_Frame ==
    (ret = NoCall /\ ret'.op = "linearIndex"
        /\ ret'.status = "invalid_argument") =>
      UNCHANGED << mapVars, cacheVars >>

\* C2: for every triple that is not in the enumerated set linearIndex fails
\* with std::invalid_argument and returns no index, isValidTriple is false
\* for exactly those triples, and the failed lookup leaves the index
\* (forward map, inverse map, caches) unchanged.
C2_InvalidTriple == [] C2_Rejects /\ [][C2_Frame]_vars

\* C2 witness: with the neighbour cache filled, linearIndex has rejected the
\* triple (1, 0, 1) of the non-existent ring ieta = 0
C2_Witness ==
    /\ pc = "ready"
    /\ neighborInfoFilled_
    /\ ret.op = "linearIndex"
    /\ ret.arg = HBHEChannelId(1, 0, 1)
    /\ ret.status = "invalid_argument"

\* the status an index-keyed accessor must end with
IndexStatus(index) ==
    IF index < ChannelCount THEN "ok" ELSE "out_of_range"

\* C3: each of getChannelTriple, getHPD, getChannelInHPD, getRBX,
\* getChannelInRBX and channelNeigborsFromOtherHPDs throws
\* std::out_of_range for every index >= ChannelCount, index = ChannelCount
\* included, and succeeds for every index < ChannelCount.
C3_IndexRange ==
    /\ Idle =>
         \A filled \in { ChannelNeighborsCache } :
            \A i \in 0..(ChannelCount + IndexSlack) :
               /\ getChannelTriple(i).status = IndexStatus(i)
               /\ getHPD(i).status = IndexStatus(i)
               /\ getChannelInHPD(i).status = IndexStatus(i)
               /\ getRBX(i).status = IndexStatus(i)
               /\ getChannelInRBX(i).status = IndexStatus(i)
               /\ channelNeigborsFromOtherHPDs(i, filled).status
                      = IndexStatus(i)
    /\ (pc = "ready" /\ ret.op \in IndexAccessors) =>
         ret.status = IndexStatus(ret.arg)

\* C3 witness: getRBX has thrown std::out_of_range at index = ChannelCount
C3_Witness ==
    /\ pc = "ready"
    /\ ret.op = "getRBX"
    /\ ret.arg = ChannelCount
    /\ ret.status = "out_of_range"

\* the azimuthal bins of the ring (depth, |ieta| = abseta) as the
\* enumeration is described: all NPhi bins, the odd bins, or none
FullRing == 1..NPhi
OddRing == { p \in 1..NPhi : p % 2 = 1 }
RingBins(depth, abseta) ==
    IF depth = 1 THEN
        (IF abseta \in 1..20 THEN FullRing
         ELSE IF abseta \in 21..29 THEN OddRing ELSE {})
    ELSE IF depth = 2 THEN
        (IF abseta \in { 15, 16, 18, 19, 20 } THEN FullRing
         ELSE IF abseta \in 21..29 THEN OddRing ELSE {})
    ELSE IF depth = 3 THEN
        (IF abseta = 16 THEN FullRing
         ELSE IF abseta \in { 27, 28 } THEN OddRing ELSE {})
    ELSE {}

DescribedTriples ==
    { t \in ProbeTriples : t.iphi \in RingBins(t.depth, Abs(t.ieta)) }

\* C4: the constructor writes 5184 triples, the rings and azimuthal bins
\* being those of DescribedTriples, each once; this number is ChannelCount,
\* so assert(l == ChannelCount) holds and no write lookup_[l++] goes past
\* position ChannelCount - 1.
C4_ChannelCount ==
    /\ pc = "ready"
    /\ l = ChannelCount
    /\ ~overflow
    /\ Len(CtorWrites) = ChannelCount
    /\ Cardinality(DescribedTriples) = ChannelCount
    /\ EnumeratedTriples = DescribedTriples
    /\ Idle => \A i \in 0..(ChannelCount - 1) : lookup_[i] = CtorWrites[i + 1]

\* C4 witness: the constructor has passed its assertion with l at
\* ChannelCount, the last position holding the last triple written
C4_Witness ==
    /\ pc = "ready"
    /\ ret = NoCall
    /\ l = ChannelCount
    /\ lookup_[ChannelCount - 1] = HBHEChannelId(3, 28, 71)
    /\ lookup_[0] = HBHEChannelId(1, -29, 1)

\* the arguments on which the assertions of getSubdetector hold
SubdetectorDomain(depth, ieta) ==
    /\ depth \in 1..MaxDepth
    /\ Abs(ieta) <= MaxAbsEta
    /\ ~(Abs(ieta) = MaxAbsEta /\ depth = MaxDepth)

\* the classification rule: sub is the region of (depth, ieta)
ClassifiedAs(depth, ieta, sub) ==
    /\ Abs(ieta) <= 15 => sub = "HcalBarrel"
    /\ (Abs(ieta) = 16 /\ depth <= 2) => sub = "HcalBarrel"
    /\ (Abs(ieta) = 16 /\ depth = 3) => sub = "HcalEndcap"
    /\ Abs(ieta) >= 17 => sub = "HcalEndcap"

\* C5 as stated: getSubdetector(depth, ieta) returns HcalBarrel for
\* |ieta| <= 15, for |ieta| = 16 HcalBarrel when depth <= 2 and HcalEndcap
\* when depth = 3, and HcalEndcap for |ieta| >= 17, whatever the arguments.
C5_AsStated ==
    (pc = "ready" /\ ret.op = "getSubdetector") =>
        /\ ret.status = "ok"
        /\ ClassifiedAs(ret.arg[1], ret.arg[2], ret.val)

\* C5, amended: for depth 1..3 and |ieta| <= 29, depth 3 at |ieta| = 29
\* excepted, getSubdetector(depth, ieta) returns HcalBarrel for
\* |ieta| <= 15, for |ieta| = 16 HcalBarrel when depth <= 2 and HcalEndcap
\* when depth = 3, and HcalEndcap for |ieta| >= 17, for both signs of ieta;
\* for any other argument an assertion fails and nothing is returned.
C5_Subdetector ==
    /\ \A depth \in 0..(MaxDepth + 1) :
         \A ieta \in (-(MaxAbsEta + 1))..(MaxAbsEta + 1) :
            IF SubdetectorDomain(depth, ieta)
            THEN ClassifiedAs(depth, ieta, getSubdetector(depth, ieta))
            ELSE getSubdetector(depth, ieta) = "assert_failed"
    /\ getSubdetector(2, 16) = "HcalBarrel"
    /\ getSubdetector(2, -16) = "HcalBarrel"
    /\ getSubdetector(3, 16) = "HcalEndcap"
    /\ getSubdetector(3, -16) = "HcalEndcap"
    /\ (pc = "ready" /\ ret.op = "getSubdetector") =>
         IF SubdetectorDomain(ret.arg[1], ret.arg[2])
         THEN /\ ret.status = "ok"
              /\ ClassifiedAs(ret.arg[1], ret.arg[2], ret.val)
         ELSE ret.status = "assert_failed"

\* C5 witness: getSubdetector has classified (depth 3, ieta -16) as endcap
C5_Witness ==
    /\ pc = "ready"
    /\ ret.op = "getSubdetector"
    /\ ret.arg = << 3, -16 >>
    /\ ret.status = "ok"
    /\ ret.val = "HcalEndcap"

\* the elements of a list
Elements(s) == { s[k] : k \in 1..Len(s) }

\* a list in strictly ascending order (sorted, no duplicates)
StrictlyAscending(s) == \A k \in 1..(Len(s) - 1) : s[k] < s[k + 1]

\* the rings ieta - 1, ieta and ieta + 1, a value of 0 being replaced by
\* the next ring in the same direction
AdjacentRings(ieta) ==
    { IF ieta = 1 THEN -1 ELSE ieta - 1,
      ieta,
      IF ieta = -1 THEN 1 ELSE ieta + 1 }

\* the azimuthal bins iphi - 1, iphi and iphi + 1 on the circle of NPhi
\* bins numbered from 1
AdjacentBins(iphi) ==
    { ((iphi + NPhi - 2) % NPhi) + 1,
      iphi,
      (iphi % NPhi) + 1 }

\* channel j is a neighbour of channel i in another hardware module
IsNeighborFromOtherHPD(i, j) ==
    /\ j # i
    /\ lookup_[j].depth = lookup_[i].depth
    /\ lookup_[j].ieta \in AdjacentRings(lookup_[i].ieta)
    /\ lookup_[j].iphi \in AdjacentBins(lookup_[i].iphi)
    /\ hpd_lookup_[j] # hpd_lookup_[i]

\* C6: for every index i < ChannelCount channelNeigborsFromOtherHPDs(i) is
\* strictly ascending, has at most 8 entries, and holds exactly the
\* enumerated channels j # i of the same depth, in a ring adjacent to or
\* equal to that of i (jumping over ieta = 0), in an azimuthal bin adjacent
\* to or equal to that of i (0 wrapped to 72 and 73 to 1), and in another
\* HPD than i.  The list a call returns is compared with a scan of all
\* channels.
C6_NeighborList ==
    /\ Idle =>
         \A filled \in { ChannelNeighborsCache } :
            \A i \in 0..(ChannelCount - 1) :
               /\ Len(filled[i]) <= 8
               /\ StrictlyAscending(filled[i])
               /\ \A j \in Elements(filled[i]) :
                     j \in 0..(ChannelCount - 1)
                         /\ IsNeighborFromOtherHPD(i, j)
               /\ \A e \in AdjacentRings(lookup_[i].ieta) :
                    \A p \in AdjacentBins(lookup_[i].iphi) :
                       LET j == linearIndex(lookup_[i].depth, e, p)
                       IN (j.status = "ok" /\ j.val # i
                             /\ hpd_lookup_[j.val] # hpd_lookup_[i])
                          => j.val \in Elements(filled[i])
    /\ (pc = "ready" /\ ret.op = "channelNeigborsFromOtherHPDs"
            /\ ret.status = "ok") =>
         /\ Len(ret.val) <= 8
         /\ StrictlyAscending(ret.val)
         /\ Elements(ret.val)
               = { j \in 0..(ChannelCount - 1) :
                     IsNeighborFromOtherHPD(ret.arg, j) }

\* C6 witness: the list returned for (1, 1, 72) holds the channel
\* (1, -1, 1), reached by the jump over ieta = 0 and the azimuthal wrap
C6_Witness ==
    /\ pc = "ready"
    /\ ret.op = "channelNeigborsFromOtherHPDs"
    /\ ret.status = "ok"
    /\ lookup_[ret.arg] = HBHEChannelId(1, 1, 72)
    /\ \E j \in Elements(ret.val) : lookup_[j] = HBHEChannelId(1, -1, 1)

\* C7: for every depth and ieta for which (depth, ieta, 1) and
\* (depth, ieta, 72) are both enumerated and lie in different HPDs, each of
\* the two channels is in the list channelNeigborsFromOtherHPDs returns
\* for the other.
C7_AzimuthWrap ==
    /\ Idle =>
         \A filled \in { ChannelNeighborsCache } :
            \A depth \in 1..MaxDepth :
               \A ieta \in (-MaxAbsEta)..MaxAbsEta :
                  LET first == linearIndex(depth, ieta, 1)
                      last == linearIndex(depth, ieta, NPhi)
                  IN (first.status = "ok" /\ last.status = "ok"
                        /\ getHPD(first.val).val # getHPD(last.val).val)
                     => /\ last.val \in Elements(
                              channelNeigborsFromOtherHPDs(first.val,
                                                           filled).val)
                        /\ first.val \in Elements(
                              channelNeigborsFromOtherHPDs(last.val,
                                                           filled).val)
    /\ (pc = "ready" /\ ret.op = "channelNeigborsFromOtherHPDs"
            /\ ret.status = "ok" /\ lookup_[ret.arg].iphi \in { 1, NPhi }) =>
         \A j \in 0..(ChannelCount - 1) :
            (/\ lookup_[j].depth = lookup_[ret.arg].depth
             /\ lookup_[j].ieta = lookup_[ret.arg].ieta
             /\ lookup_[j].iphi = NPhi + 1 - lookup_[ret.arg].iphi
             /\ hpd_lookup_[j] # hpd_lookup_[ret.arg])
            => j \in Elements(ret.val)

\* C7 witness: the list returned for (2, 16, 1) holds (2, 16, 72), which
\* lies in another HPD
C7_Witness ==
    /\ pc = "ready"
    /\ ret.op = "channelNeigborsFromOtherHPDs"
    /\ ret.status = "ok"
    /\ lookup_[ret.arg] = HBHEChannelId(2, 16, 1)
    /\ \E j \in Elements(ret.val) :
          /\ lookup_[j] = HBHEChannelId(2, 16, 72)
          /\ hpd_lookup_[j] # hpd_lookup_[ret.arg]

\* the channels of hardware module hpd
HPDMembers(hpd) == { i \in 0..(ChannelCount - 1) : hpd_lookup_[i] = hpd }

\* the channels in other modules that neighbour a channel of module hpd,
\* found from the rings and bins adjacent to each member
HPDNeighborChannels(hpd) ==
    UNION { { j \in { linearIndex(lookup_[i].depth, e, p).val :
                         e \in AdjacentRings(lookup_[i].ieta),
                         p \in AdjacentBins(lookup_[i].iphi) } :
                 j # NotFound /\ IsNeighborFromOtherHPD(i, j) } :
            i \in HPDMembers(hpd) }

\* a successful call of getHPDNeigbors has returned
HPDNeigborsReturned ==
    /\ pc = "ready"
    /\ ret.op = "getHPDNeigbors"
    /\ ret.status = "ok"

\* C15 as stated: getHPDNeigbors(hpd) returns, for every hpd < NUM_HPDS,
\* the deduplicated ascending list of the hardware-module identifiers of
\* the cross-module channel neighbours of the members of hpd: a list of
\* modules, not of channels.
C15_AsStated ==
    HPDNeigborsReturned =>
        /\ ret.arg < NUM_HPDS
        /\ StrictlyAscending(ret.val)
        /\ Elements(ret.val)
              = { hpd_lookup_[j] : j \in HPDNeighborChannels(ret.arg) }

\* C15, amended: getHPDNeigbors(hpd) returns, for every hpd < NUM_HPDS,
\* the deduplicated ascending list of the linear indices of the channels
\* that are cross-module neighbours of the members of hpd: a list of
\* channels, not of modules.
C15_HPDNeighbors ==
    HPDNeigborsReturned =>
        /\ ret.arg < NUM_HPDS
        /\ StrictlyAscending(ret.val)
        /\ Elements(ret.val) = HPDNeighborChannels(ret.arg)
        /\ ret.val = hpd_neighbors_[ret.arg]

\* C15 witness: the list returned for a module holds a channel that
\* neighbours two of the module's members, once, and a channel index that
\* is not the identifier of any module
C15_Witness ==
    /\ HPDNeigborsReturned
    /\ \E j \in Elements(ret.val) :
          /\ j >= NUM_HPDS
          /\ \E i1 \in HPDMembers(ret.arg), i2 \in HPDMembers(ret.arg) :
                /\ i1 # i2
                /\ IsNeighborFromOtherHPD(i1, j)
                /\ IsNeighborFromOtherHPD(i2, j)

\* a successful call of op returns in this step
ReturnsOk(op) ==
    /\ ret' # ret
    /\ ret'.op = op
    /\ ret'.status = "ok"

\* the steps of the lazy caches: a successful channelNeigborsFromOtherHPDs
\* leaves the list of every channel filled, a successful getHPDNeigbors
\* the list of every module and of every channel; a flag that is set stays
\* set, and the lists it covers do not change
C16_Step ==
    /\ ReturnsOk("channelNeigborsFromOtherHPDs") =>
          /\ neighborInfoFilled_'
          /\ DOMAIN channel_neighbors_' = 0..(ChannelCount - 1)
          /\ \A i \in 0..(ChannelCount - 1) :
                channel_neighbors_'[i] = calculateNeighborList(i)
    /\ ReturnsOk("getHPDNeigbors") =>
          /\ hpdNeighborsFilled_' /\ neighborInfoFilled_'
          /\ DOMAIN channel_neighbors_' = 0..(ChannelCount - 1)
          /\ DOMAIN hpd_neighbors_' = 0..(NUM_HPDS - 1)
          /\ \A hpd \in 0..(NUM_HPDS - 1) :
                hpd_neighbors_'[hpd]
                   = calculateHPDNeighbors(hpd, channel_neighbors_')
    /\ neighborInfoFilled_ =>
          /\ neighborInfoFilled_'
          /\ channel_neighbors_' = channel_neighbors_
    /\ hpdNeighborsFilled_ =>
          /\ hpdNeighborsFilled_'
          /\ hpd_neighbors_' = hpd_neighbors_

\* the list a successful query returns is determined by the constructed
\* map and the argument alone
C16_Repeatable ==
    /\ (pc = "ready" /\ ret.op = "channelNeigborsFromOtherHPDs"
            /\ ret.status = "ok") =>
          ret.val = calculateNeighborList(ret.arg)
    /\ HPDNeigborsReturned =>
          ret.val = calculateHPDNeighbors(ret.arg,
                       [i \in 0..(ChannelCount - 1) |->
                           calculateNeighborList(i)])

\* C16: the lazy neighbour caches are populated at most once and
\* completely: the first successful channelNeigborsFromOtherHPDs fills the
\* list of every channel, the first successful getHPDNeigbors the list of
\* every module and, through it, of every channel; a filled flag never
\* becomes false again and no later query changes a cached list, so a
\* repeated query returns the same list whatever queries preceded it.
C16_LazyCaches == [][C16_Step]_vars /\ [] C16_Repeatable

\* C16 witness: with both caches filled by earlier queries, a further
\* channelNeigborsFromOtherHPDs has returned a list that is not empty
C16_Witness ==
    /\ neighborInfoFilled_ /\ hpdNeighborsFilled_
    /\ pc = "ready"
    /\ ret.op = "channelNeigborsFromOtherHPDs"
    /\ ret.status = "ok"
    /\ Len(ret.val) > 0
    /\ ret.val = channel_neighbors_[ret.arg]

\* no thread is in a fill loop
NoFillInProgress ==
    \A t \in Threads : ~InChannelFill(t) /\ ~InHPDFill(t)

\* both caches are filled and every fill has completed
Warmed ==
    /\ neighborInfoFilled_
    /\ hpdNeighborsFilled_
    /\ NoFillInProgress

\* from a warmed map a step of any thread writes neither the tables nor
\* the caches nor a flag, enters no fill loop and is no race
C17_Step ==
    Warmed =>
       /\ UNCHANGED << mapVars, cacheVars >>
       /\ races' = races
       /\ Warmed'

Jets == 1..Len(event.jets)
Channels == 1..Len(event.channels)

\* the channels associated with jet j
JetMembers(j) == { c \in Channels : closestJet[c] = j }

\* the sum of the energies of the first k entries of a channel list
RECURSIVE PrefixSum(_, _)
PrefixSum(chans, k) ==
    IF k = 0 THEN 0 ELSE PrefixSum(chans, k - 1) + chans[k][1]

\* the sum of the energies of a set of channels of the event
RECURSIVE EnergySum(_)
EnergySum(S) ==
    IF S = {} THEN 0
    ELSE LET c == CHOOSE x \in S : TRUE
         IN event.channels[c].energy + EnergySum(S \ { c })

\* the budget rule on jet j: the channels of the jet are taken in ascending
\* energy order, a channel is discarded exactly if the running sum up to
\* and including it, and every running sum before, is within
\* etFractionCutoff of the jet's total energy, and the channels kept are
\* upward closed in energy
BudgetRule(j) ==
    LET chans == jetChannels_[j]
        total == event.jets[j].et
    IN /\ { chans[k][2] : k \in 1..Len(chans) } = JetMembers(j)
       /\ Len(chans) = Cardinality(JetMembers(j))
       /\ \A k \in 1..Len(chans) :
             chans[k][1] = event.channels[chans[k][2]].energy
       /\ \A k \in 1..(Len(chans) - 1) : chans[k][1] <= chans[k + 1][1]
       /\ \A k \in 1..Len(chans) :
             chans[k][2] \in budgetDiscarded
                <=> \A m \in 1..k :
                       PrefixSum(chans, m) * 100 <= etFractionCutoff * total
       /\ \A c \in JetMembers(j), d \in JetMembers(j) :
             (c \notin budgetDiscarded
                  /\ event.channels[d].energy > event.channels[c].energy)
             => d \notin budgetDiscarded

\* the example: a jet of total energy 100 with channels of energy 1, 2 and
\* 97 loses exactly the channel of energy 1
BudgetExample(j) ==
    (/\ event.jets[j].et = 100
     /\ [k \in 1..Len(jetChannels_[j]) |-> jetChannels_[j][k][1]]
            = << 1, 2, 97 >>)
    => JetMembers(j) \cap budgetDiscarded = { jetChannels_[j][1][2] }

DiscardedWithinBudget(j) ==
    EnergySum(JetMembers(j) \cap budgetDiscarded) * 100
        <= etFractionCutoff * event.jets[j].et

C10_NearestJet ==
    selPc = "selected" =>
        /\ \A c \in Channels :
             LET d == event.channels[c].distance
                 inCone == \E j \in Jets : d[j] <= coneSize
             IN /\ closestJet[c] # NoJet <=> inCone
                /\ closestJet[c] # NoJet =>
                     /\ closestJet[c] \in Jets
                     /\ \A j \in Jets : d[closestJet[c]] <= d[j]
                     /\ \A j \in Jets :
                           d[j] = d[closestJet[c]] => closestJet[c] <= j
        /\ \A c1 \in Channels, c2 \in Channels :
             event.channels[c1].distance = event.channels[c2].distance
                => closestJet[c1] = closestJet[c2]

\* C10 witness: a channel on the edge of the cones of two jets is assigned
\* to the first, and a channel nearer to the second jet to the second
C10_Witness ==
    /\ selPc = "selected"
    /\ \E c \in Channels :
          /\ event.channels[c].distance = << coneSize, coneSize >>
          /\ closestJet[c] = 1
    /\ \E c \in Channels :
          /\ event.channels[c].distance = << coneSize, 0 >>
          /\ closestJet[c] = 2

\* the channels of the event that lie outside the cone of every jet
OutsideEveryCone(c) ==
    \A j \in Jets : event.channels[c].distance[j] > coneSize

\* C11: every channel associated with a jet whose transverse momentum is
\* below jetPtCutoff is discarded in the final mask, whatever its energy
\* rank within the jet and whether or not the energy-budget step kept it.
C11_MomentumFloor ==
    selPc = "selected" =>
        \A c \in Channels :
           (/\ closestJet[c] # NoJet
            /\ event.jets[closestJet[c]].pt < jetPtCutoff)
           => mask[c] = 0

\* C11 witness: the highest-energy channel of a jet below the floor, kept
\* by the energy-budget step, is discarded in the mask
C11_Witness ==
    /\ selPc = "selected"
    /\ \E c \in Channels :
          /\ closestJet[c] # NoJet
          /\ event.jets[closestJet[c]].pt = jetPtCutoff - 1
          /\ event.jets[closestJet[c]].et = 100
          /\ event.channels[c].energy = 97
          /\ c \notin budgetDiscarded
          /\ mask[c] = 0

\* C12: a channel that is not associated with any jet, being outside the
\* cone of every jet (every channel of an event without jets included), is
\* never selected in the final mask, whatever its energy.
C12_Unassociated ==
    selPc = "selected" =>
        \A c \in Channels :
           (closestJet[c] = NoJet \/ OutsideEveryCone(c)) => mask[c] = 0

\* C12 witness: a channel of energy 97 just outside the cone of a jet that
\* passes the floor and keeps another channel is not selected
C12_Witness ==
    /\ selPc = "selected"
    /\ \E c \in Channels, d \in Channels :
          /\ event.channels[c].energy = 97
          /\ event.channels[c].distance = << coneSize + 1 >>
          /\ mask[c] = 0
          /\ mask[d] = 1

C14_SelectionOutput ==
    selPc = "selected" =>
        /\ DOMAIN mask = Channels
        /\ DOMAIN associatedJetPt = Channels
        /\ \A c \in Channels :
             /\ mask[c] \in { 0, 1 }
             /\ mask[c] = 0 => associatedJetPt[c] = 0
             /\ mask[c] = 1 =>
                  /\ closestJet[c] \in Jets
                  /\ associatedJetPt[c] = event.jets[closestJet[c]].pt

\* C14 witness: an event with two selected channels of jets of different
\* momenta and a discarded channel that is associated with a jet
C14_Witness ==
    /\ selPc = "selected"
    /\ \E c \in Channels, d \in Channels, e \in Channels :
          /\ mask[c] = 1 /\ mask[d] = 1
          /\ associatedJetPt[c] # associatedJetPt[d]
          /\ mask[e] = 0 /\ closestJet[e] # NoJet
          /\ associatedJetPt[e] = 0

(***************************************************************************)
(* Properties of the analysis job                                          *)
(***************************************************************************)

\* the sum of (Charge[t] - Pedestal[t]) * Gain[t] over a set of time slices
RECURSIVE SliceSum(_, _)
SliceSum(pulse, S) ==
    IF S = {} THEN 0
    ELSE LET t == CHOOSE x \in S : TRUE
         IN (pulse.Charge[t] - pulse.Pedestal[t]) * pulse.Gain[t]
               + SliceSum(pulse, S \ { t })

\* a call of energy returns in this step
EnergyReturns ==
    /\ AnalysisUp
    /\ helperRet' # helperRet
    /\ helperRet'.op = "energy"
    /\ helperRet'.status = "ok"

\* the state of the object apart from the outcome of the call
ObjectState ==
    << anaPc, error, options, channelSelector_, eMinTS_, eMaxTS_, entry,
       eventCounter_, channelCounter_, channelNumber_, channelCharge_,
       ChannelQNtuple, selVars >>

C18_Step ==
    EnergyReturns =>
       LET window == { t \in TimeSlices : eMinTS_ <= t /\ t < eMaxTS_ }
       IN /\ helperRet'.arg < entry.PulseCount
          /\ helperRet'.val
                = SliceSum(entry.pulses[helperRet'.arg + 1], window)
          /\ helperRet'.read = window
          /\ helperRet'.read = eMinTS_..(eMaxTS_ - 1)
          /\ UNCHANGED ObjectState

\* C18: NoiseTreeHelper::energy(idx) returns the sum over the time slices
\* t with eMinTS <= t < eMaxTS of (Charge[idx][t] - Pedestal[idx][t]) *
\* Gain[idx][t], reads only time slices of the configured window, and
\* changes neither the event nor the configured window.
C18_Energy == [][C18_Step]_vars

\* C18 witness: with the window set to all ten time slices, energy has
\* returned 90 for a pulse with charges 1..10, pedestal 1 and gain 2
C18_Witness ==
    /\ AnalysisUp
    /\ helperRet.op = "energy"
    /\ helperRet.status = "ok"
    /\ eMinTS_ = 0 /\ eMaxTS_ = N_TIME_SLICES
    /\ helperRet.read = TimeSlices
    /\ helperRet.val = 90
    /\ helperRet.arg < entry.PulseCount
    /\ entry.pulses[helperRet.arg + 1].Gain[0] = 2

\* a window of the ten time slices
ValidWindow(start, end) == start < end /\ end <= N_TIME_SLICES

\* the command line has been parsed
Parsed == anaPc # "start"

\* the window on the command line was rejected
WindowRejected == error = << "invalid_argument", "validateRangeLELT" >>

C19_Configured ==
    /\ Parsed =>
         (WindowRejected
             <=> ~ValidWindow(options.minResponseTS, options.maxResponseTS))
    /\ helperRet.op = "setEMinMaxTS" =>
         (helperRet.status = "ok"
             <=> ValidWindow(helperRet.arg[1], helperRet.arg[2]))
    /\ ValidWindow(eMinTS_, eMaxTS_)
    /\ (anaPc = "start" => eMinTS_ = 3 /\ eMaxTS_ = 8)

C19_Rejected ==
    (WindowRejected'
       \/ (helperRet' # helperRet /\ helperRet'.op = "setEMinMaxTS"
             /\ helperRet'.status # "ok"))
    => UNCHANGED << eMinTS_, eMaxTS_ >>

\* C19 as stated: the configuration of the energy window accepts a window
\* (window_start, window_end) exactly when window_start < window_end <=
\* 10, and fails otherwise, leaving the configured window unchanged; so
\* the configured window always satisfies eMinTS < eMaxTS <= 10, being
\* 3 and 8 initially.
C19_AsStated == [] C19_Configured /\ [][C19_Rejected]_vars

\* the names of the selectors the constructor knows
SupportedSelectors == { "FFTJetChannelSelector", "AllChannelSelector" }

\* the constructor runs in this step
Constructs == anaPc = "parsed" /\ anaPc' # "parsed"

C20_State ==
    /\ (Parsed /\ options.channelSelector \notin SupportedSelectors) =>
          /\ anaPc \in { "parsed", "failed" }
          /\ channelSelector_ = "null"
          /\ eventCounter_ = 0
          /\ entry = NoEntry
    /\ (AnalysisUp \/ eventCounter_ > 0) =>
          /\ channelSelector_ \in SupportedSelectors
          /\ channelSelector_ = options.channelSelector
    /\ error # << "assert_failed", "event" >>

C20_Step ==
    (Constructs /\ options.channelSelector \notin SupportedSelectors) =>
       /\ anaPc' = "failed"
       /\ error' \in GeometryOutcomes \ { NoError }
            \/ error' = << "invalid_argument", "SelectGoodChannels" >>

InvalidPulses ==
    { i \in 1..entry.PulseCount :
        HBHEChannelId(entry.pulses[i].Depth, entry.pulses[i].IEta,
                      entry.pulses[i].IPhi) \notin EnumeratedTriples }

\* event() runs in this step: the entry is used up, and not by a call of
\* the helper that fails its assertion
EventRuns == anaPc = "loaded" /\ anaPc' # "loaded" /\ helperRet' = helperRet

InvalidChannelError == << "invalid_argument", "HBHEChannelMap::linearIndex" >>

C21_Step ==
    (EventRuns /\ InvalidPulses # {}) =>
       /\ anaPc' = "failed"
       /\ error' = InvalidChannelError
       /\ UNCHANGED selVars
       /\ UNCHANGED ChannelQNtuple
       /\ UNCHANGED << eventCounter_, channelCounter_ >>
       /\ \A i \in 1..entry.PulseCount :
             (\E k \in InvalidPulses : k <= i) =>
                /\ (i \in DOMAIN channelNumber_' <=> i \in DOMAIN channelNumber_)
                /\ i \in DOMAIN channelNumber_ =>
                      /\ channelNumber_'[i] = channelNumber_[i]
                      /\ channelCharge_'[i] = channelCharge_[i]

C21_Terminal ==
    error = InvalidChannelError =>
       /\ anaPc = "failed"
       /\ InvalidPulses # {}

\* C21: if a pulse of an event carries a triple that is not enumerated,
\* event() ends with the std::invalid_argument of linearIndex at that
\* pulse: the channel selector is not called, no row is filled into the
\* ntuple, eventCounter_ and channelCounter_ keep their values, and the
\* job does not go on to another event.
C21_InvalidChannel == [][C21_Step]_vars /\ [] C21_Terminal

\* C21 witness: after one event was processed and its rows filled, the
\* second pulse of the next event has an invalid triple and event() has
\* thrown, the first pulse having been numbered
C21_Witness ==
    /\ anaPc = "failed"
    /\ error = InvalidChannelError
    /\ eventCounter_ = 1
    /\ channelCounter_ > 0
    /\ Len(ChannelQNtuple) > 0
    /\ entry.PulseCount = 2
    /\ InvalidPulses = { 2 }

\* event() returns 0 in this step
EventReturns == EventRuns /\ anaPc' = "running"

\* the cycle indices of the rows in positions first..last of the ntuple
WrittenCycles(ntuple, first, last) ==
    [k \in 1..(last - first + 1) |-> ntuple[first + k - 1].cycle]

\* the channel occurrences i of an event in increasing order, those kept
\* for which the mask entry is non-zero
RECURSIVE MaskedCycles(_, _, _)
MaskedCycles(m, all, i) ==
    IF i >= Len(m) THEN << >>
    ELSE IF all \/ m[i + 1] # 0
    THEN << i >> \o MaskedCycles(m, all, i + 1)
    ELSE MaskedCycles(m, all, i + 1)

C26_Step ==
    EventReturns =>
       LET before == Len(ChannelQNtuple)
           after == Len(ChannelQNtuple')
           written == WrittenCycles(ChannelQNtuple', before + 1, after)
       IN /\ after >= before
          /\ SubSeq(ChannelQNtuple', 1, before) = ChannelQNtuple
          /\ Len(mask') = entry.PulseCount
          /\ \A i \in 0..(entry.PulseCount - 1) :
                (\E k \in DOMAIN written : written[k] = i)
                   <=> (options.storeSelectedOnly => mask'[i + 1] # 0)
          /\ written = MaskedCycles(mask', ~options.storeSelectedOnly, 0)
          /\ \A k \in (before + 1)..after :
                /\ ChannelQNtuple'[k].event = eventCounter_
                /\ ChannelQNtuple'[k].selected
                      = mask'[ChannelQNtuple'[k].cycle + 1]

\* C26: with --storeSelectedOnly a channel occurrence i of an event is
\* written to the channel ntuple if and only if the selection mask entry
\* of i is non-zero; without the option every channel occurrence of the
\* event is written, whatever the mask holds.  Each occurrence is written
\* at most once, in the order of the occurrences.
C26_NtupleFilter == [][C26_Step]_vars

\* C26 witness: with --storeSelectedOnly, an event of two channel
\* occurrences of which the selector chose the first only has filled one
\* row, that of the first occurrence
C26_Witness ==
    /\ anaPc = "running"
    /\ options.storeSelectedOnly
    /\ eventCounter_ = 1
    /\ entry.PulseCount = 2
    /\ mask = << 1, 0 >>
    /\ Len(ChannelQNtuple) = 1
    /\ ChannelQNtuple[1].cycle = 0
    /\ ChannelQNtuple[1].selected = 1

\* without the option, rows of channel occurrences the selector did not
\* choose are in the ntuple
C26_WitnessUnfiltered ==
    /\ anaPc = "running"
    /\ ~options.storeSelectedOnly
    /\ eventCounter_ = 1
    /\ \E k \in DOMAIN ChannelQNtuple : ChannelQNtuple[k].selected = 0

(***************************************************************************)
(* Properties of the geometry files                                        *)
(***************************************************************************)

Blank(c) == c = " " \/ c = "\t"

\* a line the table format ignores: blank, white space only, or a comment
Ignored(line) ==
    \/ \A i \in DOMAIN line : Blank(line[i])
    \/ \E i \in DOMAIN line :
          /\ line[i] = "#"
          /\ \A k \in 1..(i - 1) : Blank(line[k])

\* the fields of a line: the maximal runs of characters that are not
\* separators, from position i on, cur being the field begun; white space
\* separates fields, and so do commas where commas is true
RECURSIVE Fields(_, _, _, _)
Fields(line, i, cur, commas) ==
    IF i > Len(line)
    THEN IF cur = << >> THEN << >> ELSE << cur >>
    ELSE IF Blank(line[i]) \/ (commas /\ line[i] = ",")
    THEN (IF cur = << >> THEN << >> ELSE << cur >>)
            \o Fields(line, i + 1, << >>, commas)
    ELSE Fields(line, i + 1, Append(cur, line[i]), commas)

DecimalDigits == { "0", "1", "2", "3", "4", "5", "6", "7", "8", "9" }

\* a field that is a decimal number
IsNumber(f) ==
    LET digits == IF f # << >> /\ f[1] = "-" THEN Tail(f) ELSE f
    IN /\ digits # << >>
       /\ \A i \in DOMAIN digits : digits[i] \in DecimalDigits

\* the number a field denotes
RECURSIVE Magnitude(_)
Magnitude(digits) ==
    IF digits = << >> THEN 0
    ELSE 10 * Magnitude(SubSeq(digits, 1, Len(digits) - 1))
           + (CHOOSE v \in 0..9 : digitValue(digits[Len(digits)]) = v)

NumberOf(f) ==
    IF f[1] = "-" THEN 0 - Magnitude(Tail(f)) ELSE Magnitude(f)

\* a line that is a row (ieta, iphi, depth, x, y, z)
IsRow(line, commas) ==
    LET f == Fields(line, 1, << >>, commas)
    IN /\ Len(f) >= TupleSize
       /\ \A k \in 1..TupleSize : IsNumber(f[k])

RowOf(line, commas) ==
    LET f == Fields(line, 1, << >>, commas)
    IN [k \in 1..TupleSize |-> NumberOf(f[k])]

\* the lines of the text that are not ignored, in the order of the text
Remaining(text) == SelectSeq(text, LAMBDA line : ~Ignored(line))

\* the call has returned the rows of the text, or false if a remaining
\* line is not a row
TableParsed(commas) ==
    txtPc = "returned" =>
       LET rem == Remaining(textFile)
       IN IF \A k \in DOMAIN rem : IsRow(rem[k], commas)
          THEN /\ status
               /\ tofill = [k \in DOMAIN rem |-> RowOf(rem[k], commas)]
          ELSE ~status

\* C23 as stated: the geometry loader (fillTuplesFromText as loadData
\* calls it) accepts rows of six fields separated by white space or by
\* commas, ignores blank lines, lines of white space and lines whose first
\* non-blank character is '#', and yields one tuple for each remaining
\* line in the order of the file; a remaining line that does not parse
\* into six fields makes loading fail.
C23_AsStated == ~hasCommasBetweenValues => TableParsed(TRUE)

\* C23: fillTuplesFromText accepts rows of six fields separated by white
\* space, and by commas only in a call that passes hasCommasBetweenValues
\* = true, which loadData does not; it ignores blank lines, lines of white
\* space and lines whose first non-blank character is '#', and yields one
\* tuple for each remaining line in the order of the file; a remaining
\* line that does not parse into six fields, among them every row with
\* commas in the call of loadData, makes it return false.
C23_TableParsing == TableParsed(hasCommasBetweenValues)

\* C23 witness: the call of loadData has returned the one row of a text
\* made of an indented comment, a row with blanks, a tab and a seventh
\* field, and a line of white space
C23_Witness ==
    /\ txtPc = "returned"
    /\ ~hasCommasBetweenValues
    /\ Len(textFile) = 3
    /\ textFile[1] = << " ", "#", " ", "1", " ", "2" >>
    /\ textFile[3] = << " ", "\t" >>
    /\ status
    /\ tofill = << << -16, 72, 3, 0, 0, 1 >> >>

\* a row with commas has made the call of loadData return false
C23_CommaRowRejected ==
    /\ txtPc = "returned"
    /\ ~hasCommasBetweenValues
    /\ textFile = << << "1", ",", "2", ",", "3", ",", "4", ",", "5", ",",
                        "6" >> >>
    /\ ~status
    /\ tofill = << >>

\* the vectors of the rows of a file that name channel i, in file order
RowsNaming(file, i) ==
    (IF InBlock(file, i) THEN << BlockVector(i) >> ELSE << >>)
       \o [k \in 1..Len(SelectSeq(file.tail,
                  LAMBDA t : HBHEChannelId(t[3], t[1], t[2]) = lookup_[i])) |->
             LET t == SelectSeq(file.tail,
                  LAMBDA u : HBHEChannelId(u[3], u[1], u[2]) = lookup_[i])[k]
             IN << t[4], t[5], t[6] >>]

\* the vectors the two files give for channel i, in the order they are read
VectorsOf(i) == RowsNaming(hbFile, i) \o RowsNaming(heFile, i)

\* the file can be opened and parsed and names enumerated channels only
Loads(file) ==
    /\ file.opens
    /\ file.parses
    /\ \A k \in DOMAIN file.tail :
          HBHEChannelId(file.tail[k][3], file.tail[k][1], file.tail[k][2])
             \in EnumeratedTriples

GeometryChannels == 0..(ChannelCount - 1)

\* channel i is without direction: no row names it, or the last row that
\* does has the null vector
Missing(i) ==
    \/ VectorsOf(i) = << >>
    \/ VectorsOf(i)[Len(VectorsOf(i))] = ZeroVector

\* the channels named by a row of a tail, or left out of a block
NamedInTails ==
    { i \in GeometryChannels :
         \/ lookup_[i] \in hbFile.omitted \cup heFile.omitted
         \/ \E t \in { TailRows.other, TailRows.null, TailRows.endcap } :
               HBHEChannelId(t[3], t[1], t[2]) = lookup_[i] }

MissingGeometryEntry == << "runtime_error", "HBHEChannelGeometry" >>

C22_Outcome ==
    /\ geoPc = "constructed" =>
          /\ Loads(hbFile) /\ Loads(heFile)
          /\ geoError = NoError
          /\ \A i \in GeometryChannels :
                /\ ~Missing(i)
                /\ directions_[i] = Unit(VectorsOf(i)[Len(VectorsOf(i))])
                /\ directions_[i] # ZeroVector
    /\ geoPc = "failed" =>
          IF Loads(hbFile) /\ Loads(heFile)
          THEN /\ geoError = MissingGeometryEntry
               /\ \E i \in NamedInTails : Missing(i)
          ELSE geoError[1] = "invalid_argument"
    /\ geoPc \in { "start", "hb_loaded", "he_loaded", "constructed", "failed" }

\* C22: the construction of HBHEChannelGeometry succeeds only if both
\* files can be opened and parsed, every row names an enumerated channel,
\* and every enumerated channel is named by a row, the last row that names
\* it having a vector that is not null; that row gives the direction of
\* the channel, earlier rows for the channel being overwritten.  If the
\* files load and a channel is left without such a row the construction
\* fails with std::runtime_error; a file that cannot be opened or parsed
\* or a row whose triple is not enumerated makes it fail with
\* std::invalid_argument.
C22_GeometryLoading == C22_Outcome

\* C22 as stated: the construction succeeds only if every enumerated
\* channel receives exactly one direction from the rows of the two files;
\* with a channel that has no row, or rows with the null vector only, it
\* fails with std::runtime_error, and with a row whose triple is not
\* enumerated or a file that cannot be opened or parsed it fails.
C22_AsStated ==
    /\ geoPc = "constructed" =>
          /\ Loads(hbFile) /\ Loads(heFile)
          /\ \A i \in GeometryChannels : Len(VectorsOf(i)) = 1
    /\ geoPc = "failed" =>
          IF Loads(hbFile) /\ Loads(heFile)
          THEN geoError = MissingGeometryEntry
          ELSE geoError[1] = "invalid_argument"
    /\ (geoPc = "he_loaded" /\ Loads(hbFile) /\ Loads(heFile)
          /\ \E i \in NamedInTails :
                \A k \in DOMAIN VectorsOf(i) : VectorsOf(i)[k] = ZeroVector)
       => missingDirections(directions_) # {}

\* C22 witness: the barrel file names the channel (1, 1, 1) three times,
\* with the vector of its block, the null vector and the vector (0, 0, 5);
\* the construction has succeeded and the channel has the direction of
\* the last of them
C22_Witness ==
    /\ geoPc = "constructed"
    /\ hbFile.omitted = {}
    /\ hbFile.tail = << TailRows.null, TailRows.other >>
    /\ heFile.tail = << TailRows.endcap >>
    /\ directions_[find(ProbeChannel)] = << 0, 0, 1 >>

\* the construction has failed for a channel left out of the barrel file
C22_WitnessMissing ==
    /\ geoPc = "failed"
    /\ geoError = MissingGeometryEntry
    /\ hbFile.omitted = { ProbeChannel }
    /\ hbFile.tail = << >>
    /\ heFile.tail = << >>

(***************************************************************************)
(* Further properties of the channel map                                   *)
(***************************************************************************)

\* the map as the constructor leaves it, before any call
JustConstructed ==
    /\ pc = "ready"
    /\ ret = NoCall
    /\ ~neighborInfoFilled_
    /\ ~hpdNeighborsFilled_

\* the number of channels with a smaller linear index than i that the
\* table maps to the same unit as i
EarlierInSameUnit(table, i) ==
    Cardinality({ j \in 0..(i - 1) : table[j] = table[i] })

C24_Positions ==
    JustConstructed =>
       \A i \in 0..(ChannelCount - 1) :
          LET hpd == getHPD(i).val
              inHPD == getChannelInHPD(i).val
              rbx == getRBX(i).val
              inRBX == getChannelInRBX(i).val
          IN /\ getChannelInHPD(i).status = "ok"
             /\ getChannelInRBX(i).status = "ok"
             /\ inHPD < Len(hpd_channel_lookup_[hpd])
             /\ hpd_channel_lookup_[hpd][inHPD + 1] = i
             /\ inHPD = EarlierInSameUnit(hpd_lookup_, i)
             /\ inRBX < Len(rbx_channel_lookup_[rbx])
             /\ rbx_channel_lookup_[rbx][inRBX + 1] = i
             /\ inRBX = EarlierInSameUnit(rbx_lookup_, i)

\* a call of getChannelInHPD or getChannelInRBX returns the entry of the
\* table for its index
C24_Returned ==
    /\ (ret.op = "getChannelInHPD" /\ ret.status = "ok") =>
          ret.val = chan_in_hpd_lookup_[ret.arg]
    /\ (ret.op = "getChannelInRBX" /\ ret.status = "ok") =>
          ret.val = chan_in_rbx_lookup_[ret.arg]

\* C24: for every channel index i, getChannelInHPD(i) is the position of
\* i in the member list of the module getHPD(i), and getChannelInRBX(i)
\* its position in the member list of the rack getRBX(i): the member at
\* that position is i, and the position is the number of channels with a
\* smaller linear index in the same module (rack).  No call changes the
\* tables.
C24_OrdinalPosition ==
    [] C24_Positions /\ [] C24_Returned /\ [][UNCHANGED mapVars]_vars

\* C24 witness: getChannelInHPD has returned a position that is not the
\* first of its module, and the member at that position is the index asked
\* for
C24_Witness ==
    /\ pc = "ready"
    /\ ret.op = "getChannelInHPD"
    /\ ret.status = "ok"
    /\ ret.val > 0
    /\ hpd_channel_lookup_[hpd_lookup_[ret.arg]][ret.val + 1] = ret.arg

\* two maps constructed independently of each other, with whatever
\* hardware map, hold the same enumeration
SameEnumeration(a, b) ==
    /\ a.lookup_ = b.lookup_
    /\ a.inverse_ = b.inverse_
    /\ a.l = b.l

C25_TwoObjects ==
    JustConstructed =>
       /\ \A w1, w2 \in 1..MaxStripWidth :
             SameEnumeration(Construct(w1), Construct(w2))
       /\ \E other \in { Construct((hpdMap % MaxStripWidth) + 1) } :
             /\ lookup_ = other.lookup_
             /\ inverse_ = other.inverse_
             /\ \A t \in QueryTriples :
                   LET it == IF /\ t.depth \in 1..MaxDepth
                                /\ t.ieta \in (-MaxAbsEta)..MaxAbsEta
                                /\ t.iphi \in 1..NPhi
                             THEN other.inverse_[t.depth][t.ieta][t.iphi]
                             ELSE NotFound
                   IN linearIndex(t.depth, t.ieta, t.iphi).val = it
             /\ \A i \in QueryIndices :
                   i < ChannelCount =>
                      getChannelTriple(i).val = other.lookup_[i]

\* what a call returns is fixed by its argument: the position of the
\* triple in the order the constructor writes the triples in
C25_SameAnswers ==
    /\ (ret.op = "linearIndex" /\ ret.status = "ok") =>
          CtorWrites[ret.val + 1] = ret.arg
    /\ (ret.op = "getChannelTriple" /\ ret.status = "ok") =>
          ret.val = CtorWrites[ret.arg + 1]

NeighborsOfMembers(S) == UNION { Elements(channel_neighbors_[c]) : c \in S }

\* C28: for every module h < NUM_HPDS, getHPDNeigbors(h) is the strictly
\* ascending, duplicate-free list of channel indices equal to the union of
\* channelNeigborsFromOtherHPDs(c) over all member channels c of h; it is
\* empty for a module without member channels and never contains a channel
\* that belongs to h itself.  Checked for the module of the call, whose
\* members are found by a scan of getHPD, and for every cached list.
C28_HPDUnion ==
    HPDNeigborsReturned =>
        /\ neighborInfoFilled_ /\ hpdNeighborsFilled_
        /\ ret.arg < NUM_HPDS
        /\ StrictlyAscending(ret.val)
        /\ Elements(ret.val) = NeighborsOfMembers(HPDMembers(ret.arg))
        /\ \A c \in HPDMembers(ret.arg) :
              ret.val # << >> \/
              channelNeigborsFromOtherHPDs(c, channel_neighbors_).val = << >>
        /\ Elements(ret.val) \cap HPDMembers(ret.arg) = {}
        /\ \A h \in 0..(NUM_HPDS - 1) :
              LET members == Elements(hpd_channel_lookup_[h])
              IN /\ StrictlyAscending(hpd_neighbors_[h])
                 /\ Elements(hpd_neighbors_[h]) = NeighborsOfMembers(members)
                 /\ members = {} => hpd_neighbors_[h] = << >>
                 /\ \A j \in Elements(hpd_neighbors_[h]) :
                       j < ChannelCount /\ hpd_lookup_[j] # h

\* C28 witness: the list returned for a module is the union of several
\* different member lists, the last member contributing a channel that no
\* other member does, and two members sharing a neighbour
C28_Witness ==
    /\ HPDNeigborsReturned
    /\ LET members == hpd_channel_lookup_[ret.arg]
           last == members[Len(members)]
       IN /\ Len(members) > 1
          /\ \E j \in Elements(channel_neighbors_[last]) :
                /\ j \in Elements(ret.val)
                /\ \A k \in 1..(Len(members) - 1) :
                      j \notin Elements(channel_neighbors_[members[k]])
          /\ \E k1, k2 \in 1..Len(members) :
                /\ k1 # k2
                /\ Elements(channel_neighbors_[members[k1]])
                      \cap Elements(channel_neighbors_[members[k2]]) # {}

\* a module without member channels has been asked for
C28_WitnessEmptyModule ==
    /\ HPDNeigborsReturned
    /\ hpd_channel_lookup_[ret.arg] = << >>
    /\ ret.val = << >>

\* a successful call of channelNeigborsFromOtherHPDs has returned
ChannelNeigborsReturned ==
    /\ pc = "ready"
    /\ ret.op = "channelNeigborsFromOtherHPDs"
    /\ ret.status = "ok"

\* the channel calculateNeighborList looks up for channel i and the k-th
\* pair of shifts, before the comparison of the modules
ShiftedChannel(i, k) ==
    find(HBHEChannelId(lookup_[i].depth,
                       ShiftEta(lookup_[i].ieta, NeighborShifts[k][1]),
                       WrapPhi(lookup_[i].iphi, NeighborShifts[k][2])))

\* the lookups are mutual and never find the channel itself, so that the
\* relation is symmetric and irreflexive under any assignment of the
\* channels to modules: "myHPD != getHPD(neighbor)" is symmetric
MutualLookups ==
    \A i \in 0..(ChannelCount - 1) :
       \A k \in 1..Len(NeighborShifts) :
          LET j == ShiftedChannel(i, k)
          IN j # NotFound =>
                /\ j # i
                /\ \E m \in 1..Len(NeighborShifts) : ShiftedChannel(j, m) = i

\* C29: the relation "j is in channelNeigborsFromOtherHPDs(i)" is
\* symmetric and irreflexive, including across the jump between ieta = -1
\* and ieta = +1, the wrap between iphi = 72 and iphi = 1 and the boundary
\* between full and half azimuthal granularity.  Checked on the lookups
\* that precede the comparison of the modules, on all the lists the first
\* call computes, for each hardware map of the model, and on the list each
\* call returns.
C29_Symmetry ==
    /\ JustConstructed => MutualLookups
    /\ JustConstructed =>
         \A filled \in { ChannelNeighborsCache } :
            \A i \in 0..(ChannelCount - 1) :
               /\ i \notin Elements(filled[i])
               /\ \A j \in Elements(filled[i]) :
                     i \in Elements(
                              channelNeigborsFromOtherHPDs(j, filled).val)
    /\ ChannelNeigborsReturned =>
         /\ ret.arg \notin Elements(ret.val)
         /\ \A j \in Elements(ret.val) :
               ret.arg \in Elements(channel_neighbors_[j])

\* C29 witness: the list returned for (1, 20, 72) holds (1, 21, 1), in the
\* first ring of half granularity and across the azimuthal wrap, and the
\* list of (1, 21, 1) holds (1, 20, 72)
C29_Witness ==
    /\ ChannelNeigborsReturned
    /\ lookup_[ret.arg] = HBHEChannelId(1, 20, 72)
    /\ \E j \in Elements(ret.val) :
          /\ lookup_[j] = HBHEChannelId(1, 21, 1)
          /\ ret.arg \in Elements(channel_neighbors_[j])

\* the same across the jump over ieta = 0: (1, -1, 1) and (1, 1, 72)
C29_WitnessJump ==
    /\ ChannelNeigborsReturned
    /\ lookup_[ret.arg] = HBHEChannelId(1, -1, 1)
    /\ \E j \in Elements(ret.val) :
          /\ lookup_[j] = HBHEChannelId(1, 1, 72)
          /\ ret.arg \in Elements(channel_neighbors_[j])

\* a neighbour query has been rejected with the range error
NeighborQueryRejected ==
    /\ pc = "ready"
    /\ ret.op \in { "channelNeigborsFromOtherHPDs", "getHPDNeigbors" }
    /\ ret.status = "out_of_range"

\* a step that is a rejected neighbour query
RejectedQueryStep ==
    /\ ret = NoCall
    /\ ret'.op \in { "channelNeigborsFromOtherHPDs", "getHPDNeigbors" }
    /\ ret'.status = "out_of_range"

C30_Step ==
    RejectedQueryStep =>
        /\ ret'.arg >= (IF ret'.op = "getHPDNeigbors"
                        THEN NUM_HPDS ELSE ChannelCount)
        /\ neighborInfoFilled_' = neighborInfoFilled_
        /\ hpdNeighborsFilled_' = hpdNeighborsFilled_
        /\ channel_neighbors_' = channel_neighbors_
        /\ hpd_neighbors_' = hpd_neighbors_

\* a query with an argument beyond the range is rejected
C30_Rejection ==
    (/\ pc = "ready"
     /\ \/ ret.op = "channelNeigborsFromOtherHPDs" /\ ret.arg >= ChannelCount
        \/ ret.op = "getHPDNeigbors" /\ ret.arg >= NUM_HPDS)
    => ret.status = "out_of_range"

\* C30: a rejected neighbour query leaves the lazy caches untouched:
\* channelNeigborsFromOtherHPDs with index >= ChannelCount and
\* getHPDNeigbors with module >= NUM_HPDS raise the range error, and
\* neighborInfoFilled_, hpdNeighborsFilled_ and every cached list have the
\* same values after the failed call as before it, whether or not the
\* caches were already filled.
C30_RejectedQueryFrame == [][C30_Step]_vars /\ [] C30_Rejection

\* C30 witness: a channel query was rejected while both caches were still
\* unfilled
C30_Witness ==
    /\ NeighborQueryRejected
    /\ ret.op = "channelNeigborsFromOtherHPDs"
    /\ ~neighborInfoFilled_
    /\ ~hpdNeighborsFilled_
    /\ \A i \in 0..(ChannelCount - 1) : channel_neighbors_[i] = << >>

\* a module query was rejected while both caches were still unfilled
C30_WitnessModule ==
    /\ NeighborQueryRejected
    /\ ret.op = "getHPDNeigbors"
    /\ ~neighborInfoFilled_
    /\ ~hpdNeighborsFilled_

\* queries were rejected after both caches had been filled
C30_WitnessWarmed ==
    /\ NeighborQueryRejected
    /\ neighborInfoFilled_
    /\ hpdNeighborsFilled_
    /\ \E i \in 0..(ChannelCount - 1) : channel_neighbors_[i] # << >>

(***************************************************************************)
(* Properties of the logical functors                                      *)
(***************************************************************************)

\* what the operand functor f yields in the call that was made
Yields(f) ==
    (IF fnRet.arg = NoIndex THEN f.value ELSE f.element[fnRet.arg + 1]) # 0

\* C27 as stated: in the call without argument and in the call with a
\* cycle index, Or(f1, f2) yields true exactly when f1 or f2 yields true,
\* And(f1, f2) exactly when both yield true, and Not(f) yields the
\* negation of f.
C27_AsStated ==
    /\ fnRet.op = "Or" => (fnRet.val <=> (Yields(f1_) \/ Yields(f2_)))
    /\ fnRet.op = "And" => (fnRet.val <=> (Yields(f1_) /\ Yields(f2_)))
    /\ fnRet.op = "Not" => (fnRet.val <=> ~Yields(f1_))

\* And and Not are the logical operations
AndNotAsDocumented ==
    /\ fnRet.op = "And" => (fnRet.val <=> (Yields(f1_) /\ Yields(f2_)))
    /\ fnRet.op = "Not" => (fnRet.val <=> ~Yields(f1_))

\* Or has returned false although its first operand yields true
OrReturnsFalse ==
    /\ fnRet.op = "Or"
    /\ fnRet.arg = 0
    /\ Yields(f1_)
    /\ ~Yields(f2_)
    /\ ~fnRet.val

=============================================================================
